---- MODULE Spec2Model ----
(***************************************************************************)
(* Model of the 44agents workflow generation pipeline: the backend         *)
(* adapters (BaseAIService / ClaudeService / OpenAIService) with their     *)
(* rate-limit bookkeeping, the response parsers, the backend selector and  *)
(* the WorkflowGenerator pipeline.                                          *)
(*                                                                         *)
(* Time is counted in ticks of one rate-limit window (60000 ms).  Unit     *)
(* costs and confidences are scaled to integers (confidence in 1/100).     *)
(***************************************************************************)
EXTENDS Integers, Sequences, FiniteSets, TLC

\* ------------------------------------------------------------------ bounds
\* Number of concurrent callers (adapter calls / pipeline invocations).
NumCallers == 2
\* Per-window request limit of every model descriptor (rateLimitRPM, scaled).
RateLimitRPM == 2
\* Per-window token limit of every model descriptor (rateLimitTPM, scaled).
RateLimitTPM == 3
\* Largest token usage (input + output) one response reports.
MaxTokensUsed == 2
\* The clock stops advancing at MaxTime.
MaxTime == 2
\* Calls started in a run of the adapter specification.
MaxCalls == 4
\* Estimated costs of a backend range over 1..MaxCost.
MaxCost == 2
\* The longest raw response text, in segments.
MaxSegments == 3
\* The longest node list of a workflow handed to a stage on its own.
MaxNodes == 2
\* maxRetries of a retried operation ranges over 0..MaxRetries.
MaxRetries == 2
\* baseDelay ranges over 0..MaxBaseDelay, in units of 500 ms.
MaxBaseDelay == 2

\* Messages the background service receives in one behaviour.
MaxSent == 3

\* --------------------------------------------------------------- constants
\* The number of messages saveMessage keeps.
MessageLimit == 1000
\* One rate-limit window, in ticks (60000 ms).
WindowTicks == 1
\* Retry-after (seconds) used when a 429 response gives none.
DefaultRetryAfter == 60
\* Confidence of a degraded (fallback) parse result: 0.1, in 1/100.
DegradedConfidence == 10
\* workflow.nodes.length > 20: the size above which a workflow gets the
\* optimization suggestion.
LargeWorkflow == 20
\* Confidence reported when the response carries none: 0.9, in 1/100.
DefaultConfidence == 90
\* Math.random() * 1000: the jitter is below 1000 ms, at most one unit of
\* 500 ms.
MaxJitter == 1

\* enum AIProvider
Providers == {"claude", "openai", "gemini"}
\* The providers whose adapter class is part of the sources.
Adapters == {"claude", "openai"}
Callers == 1..NumCallers

VARIABLES
    now,              \* current time, in ticks
    rateLimitStatus,  \* provider -> [requestsRemaining, tokensRemaining, resetTime]
    requestCount,     \* provider -> this.requestCount
    tokenCount,       \* provider -> this.tokenCount
    errorCount,       \* provider -> this.errorCount
    call,             \* caller -> the adapter call it has in flight
    callsMade,        \* adapter calls started so far
    selIn,            \* the inputs of one backend selection
    selOut,           \* its outcome
    rawText,          \* a raw response text handed to the parsers
    parseOut,         \* adapter -> what its parser made of rawText
    aiServices,       \* this.aiServices of the generator: providers in Map order
    config,           \* the stored configuration
    inv,              \* caller -> its invocation of WorkflowGenerator.generateWorkflow
    stepArrays,       \* the step arrays allocated so far, by identity
    generationSteps,  \* this.generationSteps: the identity of the current array
    stageIn,          \* the input handed to one stage (or chain of stages) on its own
    stageOut,         \* what the stage made of it
    retry,            \* one RetryHandler.executeWithRetry invocation
    port,             \* sender -> the message the background service handles for it
    sent,             \* messages received so far
    store,            \* chrome.storage.local: the list under the key "messages"
    completed         \* the messages whose saveMessage call completed, in that order

adapterVars == <<now, rateLimitStatus, requestCount, tokenCount, errorCount>>
callVars == <<call, callsMade>>
selectVars == <<selIn, selOut>>
parseVars == <<rawText, parseOut>>
pipelineVars == <<aiServices, config, inv, stepArrays, generationSteps>>
stageVars == <<stageIn, stageOut>>
retryVars == <<retry>>
backgroundVars == <<port, sent, store, completed>>
vars == <<now, rateLimitStatus, requestCount, tokenCount, errorCount,
          call, callsMade, selIn, selOut, rawText, parseOut,
          aiServices, config, inv, stepArrays, generationSteps,
          stageIn, stageOut, retry, port, sent, store, completed>>

\* ------------------------------------------------------------ text and JSON
\* Node type names are character sequences, so that String.includes is a
\* substring test.
ManualTriggerType == <<"n", "8", "n", "-", "n", "o", "d", "e", "s", "-", "b", "a", "s", "e", ".", "m", "a", "n", "u", "a", "l", "T", "r", "i", "g", "g", "e", "r">>
SlackType == <<"n", "8", "n", "-", "n", "o", "d", "e", "s", "-", "b", "a", "s", "e", ".", "s", "l", "a", "c", "k">>
GithubTriggerType == <<"n", "8", "n", "-", "n", "o", "d", "e", "s", "-", "b", "a", "s", "e", ".", "g", "i", "t", "h", "u", "b", "T", "r", "i", "g", "g", "e", "r">>
ScheduleTriggerType == <<"n", "8", "n", "-", "n", "o", "d", "e", "s", "-", "b", "a", "s", "e", ".", "s", "c", "h", "e", "d", "u", "l", "e", "T", "r", "i", "g", "g", "e", "r">>
WebhookType == <<"n", "8", "n", "-", "n", "o", "d", "e", "s", "-", "b", "a", "s", "e", ".", "w", "e", "b", "h", "o", "o", "k">>
HttpRequestType == <<"n", "8", "n", "-", "n", "o", "d", "e", "s", "-", "b", "a", "s", "e", ".", "h", "t", "t", "p", "R", "e", "q", "u", "e", "s", "t">>
MysqlType == <<"n", "8", "n", "-", "n", "o", "d", "e", "s", "-", "b", "a", "s", "e", ".", "m", "y", "s", "q", "l">>
GoogleSheetsType == <<"n", "8", "n", "-", "n", "o", "d", "e", "s", "-", "b", "a", "s", "e", ".", "g", "o", "o", "g", "l", "e", "S", "h", "e", "e", "t", "s">>
IfType == <<"n", "8", "n", "-", "n", "o", "d", "e", "s", "-", "b", "a", "s", "e", ".", "i", "f">>
SetType == <<"n", "8", "n", "-", "n", "o", "d", "e", "s", "-", "b", "a", "s", "e", ".", "s", "e", "t">>
CronType == <<"n", "8", "n", "-", "n", "o", "d", "e", "s", "-", "b", "a", "s", "e", ".", "c", "r", "o", "n">>
NoOpType == <<"n", "8", "n", "-", "n", "o", "d", "e", "s", "-", "b", "a", "s", "e", ".", "n", "o", "O", "p">>
EventTriggerType == <<"c", "u", "s", "t", "o", "m", "-", "n", "o", "d", "e", "s", ".", "t", "r", "i", "g", "g", "e", "r">>
CronTriggerType == <<"c", "u", "s", "t", "o", "m", "-", "n", "o", "d", "e", "s", ".", "c", "r", "o", "n", "-", "t", "r", "i", "g", "g", "e", "r">>
GoogleSqlType == <<"c", "u", "s", "t", "o", "m", "-", "n", "o", "d", "e", "s", ".", "g", "o", "o", "g", "l", "e", "-", "s", "q", "l">>
\* The keywords the pipeline looks for in a node type.
KwTrigger == <<"t", "r", "i", "g", "g", "e", "r">>
KwWebhook == <<"w", "e", "b", "h", "o", "o", "k">>
KwManual == <<"m", "a", "n", "u", "a", "l">>
KwHttp == <<"h", "t", "t", "p">>
KwDatabase == <<"d", "a", "t", "a", "b", "a", "s", "e">>
KwSql == <<"s", "q", "l">>
KwEmail == <<"e", "m", "a", "i", "l">>
KwSlack == <<"s", "l", "a", "c", "k">>
KwGoogle == <<"g", "o", "o", "g", "l", "e">>
KwMicrosoft == <<"m", "i", "c", "r", "o", "s", "o", "f", "t">>
KwIf == <<"i", "f">>
KwSwitch == <<"s", "w", "i", "t", "c", "h">>
KwSet == <<"s", "e", "t">>
KwCode == <<"c", "o", "d", "e">>
KwCron == <<"c", "r", "o", "n">>
KwSchedule == <<"s", "c", "h", "e", "d", "u", "l", "e">>
\* The value of a property the object does not have.
Undefined == <<"undefined">>

\* String.prototype.includes
Includes(s, sub) ==
    \E i \in 0..(Len(s) - Len(sub)) : \A j \in 1..Len(sub) : s[i + j] = sub[j]

\* A node of a workflow; position <<>> and notes "" stand for an absent field.
Node(id, name, type) ==
    [id |-> id, name |-> name, type |-> type, position |-> <<>>, notes |-> ""]

\* The "nodes" field of a decoded workflow: absent, an array, or another truthy
\* value that is no array (an object).
NodesAbsent == [kind |-> "absent", items |-> <<>>]
NodesObject == [kind |-> "object", items |-> <<>>]
NodesArray(items) == [kind |-> "array", items |-> items]

ConnectionsAbsent == [kind |-> "absent", edges |-> <<>>]
ConnectionsMap(edges) == [kind |-> "map", edges |-> edges]

MetadataAbsent ==
    [kind |-> "absent", aiModel |-> "", parseError |-> FALSE, confidence |-> 0]

\* The "workflow" field of a decoded response: absent, a truthy primitive
\* (kind "scalar") or an object.
WorkflowObject(id, nodes, connections, metadata) ==
    [kind |-> "object", id |-> id, name |-> "Generated Workflow", nodes |-> nodes,
     connections |-> connections, metadata |-> metadata]
WorkflowAbsent ==
    [kind |-> "absent", id |-> "", name |-> "", nodes |-> NodesAbsent,
     connections |-> ConnectionsAbsent, metadata |-> MetadataAbsent]
WorkflowScalar ==
    [kind |-> "scalar", id |-> "", name |-> "", nodes |-> NodesAbsent,
     connections |-> ConnectionsAbsent, metadata |-> MetadataAbsent]

\* A decoded JSON value: an object with the three response fields, the
\* literal null, or (kind "bad") brace-delimited text that is no JSON.
\* explanation is "absent", "empty" (the empty string) or "text";
\* confidence 0 stands for an absent (or zero) confidence.
JsonObject(workflow, explanation, confidence) ==
    [kind |-> "object", workflow |-> workflow, explanation |-> explanation,
     confidence |-> confidence]
JsonNull ==
    [kind |-> "null", workflow |-> WorkflowAbsent, explanation |-> "absent",
     confidence |-> 0]
JsonBad ==
    [kind |-> "bad", workflow |-> WorkflowAbsent, explanation |-> "absent",
     confidence |-> 0]

BackendMetadata ==
    [kind |-> "present", aiModel |-> "backend", parseError |-> FALSE, confidence |-> 0]
TwoNodes ==
    <<Node("1", "On issue", GithubTriggerType), Node("2", "Slack", SlackType)>>
GoodWorkflow ==
    WorkflowObject("wf1", NodesArray(TwoNodes),
                   ConnectionsMap(<<[source |-> "On issue", target |-> "Slack"]>>),
                   BackendMetadata)

\* The response objects the model draws from.
GoodJson == JsonObject(GoodWorkflow, "text", 95)
NoWorkflowJson == JsonObject(WorkflowAbsent, "text", 95)
ScalarWorkflowJson == JsonObject(WorkflowScalar, "text", 95)
NoExplanationJson == JsonObject(GoodWorkflow, "absent", 95)
EmptyExplanationJson == JsonObject(GoodWorkflow, "empty", 95)
NoNodesJson ==
    JsonObject(WorkflowObject("wf1", NodesAbsent, ConnectionsAbsent, BackendMetadata),
               "text", 95)
EmptyNodesJson ==
    JsonObject(WorkflowObject("wf1", NodesArray(<<>>), ConnectionsAbsent, BackendMetadata),
               "text", 95)
ObjectNodesJson ==
    JsonObject(WorkflowObject("wf1", NodesObject, ConnectionsAbsent, BackendMetadata),
               "text", 95)
UntypedNodeJson ==
    JsonObject(WorkflowObject("", NodesArray(<<Node("1", "Step", Undefined)>>),
                              ConnectionsAbsent, MetadataAbsent),
               "text", 0)
TriggerThenUntypedJson ==
    JsonObject(WorkflowObject("wf1",
                              NodesArray(<<Node("1", "Start", ManualTriggerType),
                                           Node("2", "Step", Undefined)>>),
                              ConnectionsAbsent, BackendMetadata),
               "text", 95)
JsonValues ==
    {GoodJson, NoWorkflowJson, ScalarWorkflowJson, NoExplanationJson,
     EmptyExplanationJson, NoNodesJson, EmptyNodesJson, ObjectNodesJson,
     UntypedNodeJson, TriggerThenUntypedJson, JsonBad}

\* A raw response text is a sequence of segments: prose without braces or
\* fences ("P"), an opening fence ```json ("FO"), a closing fence ``` ("FC"),
\* the JSON literal null ("N"), or a brace-delimited chunk ("obj") that
\* decodes to val.
Prose == [seg |-> "P", val |-> JsonNull]
FenceOpen == [seg |-> "FO", val |-> JsonNull]
FenceClose == [seg |-> "FC", val |-> JsonNull]
NullLiteral == [seg |-> "N", val |-> JsonNull]
Obj(v) == [seg |-> "obj", val |-> v]
Segments == {Prose, FenceOpen, FenceClose, NullLiteral} \cup {Obj(v) : v \in JsonValues}


\* ------------------------------------------------------------ response parser
Min(S) == CHOOSE x \in S : \A y \in S : x <= y
Max(S) == CHOOSE x \in S : \A y \in S : x >= y

\* JSON.parse: the text decodes iff it is one JSON value and nothing else.
JSONparse(text) ==
    IF Len(text) = 1 /\ text[1].seg = "obj" /\ text[1].val.kind = "object"
    THEN [threw |-> FALSE, value |-> text[1].val]
    ELSE IF Len(text) = 1 /\ text[1].seg = "N"
    THEN [threw |-> FALSE, value |-> JsonNull]
    ELSE [threw |-> TRUE, value |-> JsonNull]

\* content.match(/```json\s*([\s\S]*?)\s*```/): the leftmost ```json that has
\* a ``` after it, up to the nearest such ``` (an opening fence begins with
\* ``` too).  group is capture 1, whole is the matched text.
FencedMatch(content) ==
    LET fences == {i \in 1..Len(content) : content[i].seg \in {"FO", "FC"}}
        opens == {i \in fences : content[i].seg = "FO" /\ \E j \in fences : j > i}
    IN  IF opens = {}
        THEN [matched |-> FALSE, group |-> <<>>, whole |-> <<>>]
        ELSE LET i == Min(opens)
                 j == Min({k \in fences : k > i})
             IN  [matched |-> TRUE, group |-> SubSeq(content, i + 1, j - 1),
                  whole |-> <<FenceOpen>> \o SubSeq(content, i + 1, j - 1) \o <<FenceClose>>]

\* content.match(/\{[\s\S]*\}/): greedy, from the first "{" to the last "}".
BraceMatch(content) ==
    LET objs == {i \in 1..Len(content) : content[i].seg = "obj"}
    IN  IF objs = {}
        THEN [matched |-> FALSE, group |-> <<>>, whole |-> <<>>]
        ELSE [matched |-> TRUE, group |-> <<>>,
              whole |-> SubSeq(content, Min(objs), Max(objs))]

\* this.model.name of the adapter's default model
ModelName(provider) ==
    IF provider = "claude" THEN "claude-3-sonnet-20240229" ELSE "gpt-4-turbo-preview"

ParseThrew == [threw |-> TRUE, workflow |-> WorkflowAbsent, confidence |-> 0]

\* CheckParsed without the test for a missing nodes array.
CheckParsedNoNodesTest(provider, parsed) ==
    IF parsed.kind # "object" THEN ParseThrew
    ELSE IF parsed.workflow.kind # "object" \/ parsed.explanation # "text" THEN ParseThrew
    ELSE [threw |-> FALSE, workflow |-> parsed.workflow, confidence |-> parsed.confidence]

\* The checks both parsers apply to the decoded value (the body of the try
\* block after JSON.parse): threw is TRUE where the code throws.
CheckParsed(provider, parsed) ==
    IF parsed.kind # "object" THEN ParseThrew
    ELSE IF parsed.workflow.kind = "absent" \/ parsed.explanation # "text" THEN ParseThrew
    ELSE IF parsed.workflow.kind = "scalar" THEN ParseThrew
    ELSE IF parsed.workflow.nodes.kind = "absent" THEN ParseThrew
    ELSE LET w == parsed.workflow
         IN  [threw |-> FALSE,
              workflow |->
                  [w EXCEPT !.id = IF w.id = "" THEN "generated" ELSE w.id,
                            !.connections = IF w.connections.kind = "absent"
                                            THEN ConnectionsMap(<<>>)
                                            ELSE w.connections,
                            !.metadata = IF w.metadata.kind = "absent"
                                         THEN [kind |-> "present",
                                               aiModel |-> ModelName(provider),
                                               parseError |-> FALSE, confidence |-> 0]
                                         ELSE w.metadata],
              confidence |-> parsed.confidence]

\* The try block of ClaudeService.parseWorkflowResponse.
ClaudeTryParse(content) ==
    LET fenced == FencedMatch(content)
        jsonMatch == IF fenced.matched THEN fenced ELSE BraceMatch(content)
    IN  IF ~jsonMatch.matched THEN ParseThrew
        ELSE LET decoded == JSONparse(IF jsonMatch.group # <<>> THEN jsonMatch.group
                                      ELSE jsonMatch.whole)
             IN  IF decoded.threw THEN ParseThrew
                 ELSE CheckParsed("claude", decoded.value)

\* The try block of OpenAIService.parseWorkflowResponse.
OpenAITryParse(content) ==
    LET decoded == JSONparse(content)
    IN  IF decoded.threw THEN ParseThrew ELSE CheckParsed("openai", decoded.value)

\* The fallback with a trigger node that has no type.
FallbackResponseUntyped(provider, content) ==
    [workflow |->
        [kind |-> "object", id |-> "generated", name |-> "Generated Workflow",
         nodes |-> NodesArray(<<[id |-> "start", name |-> "Manual Trigger",
                                 type |-> Undefined,
                                 position |-> <<240, 300>>, notes |-> ""]>>),
         connections |-> ConnectionsMap(<<>>),
         metadata |-> [kind |-> "present", aiModel |-> ModelName(provider),
                       parseError |-> TRUE, confidence |-> 0]],
     explanation |-> [kind |-> "fallback", provider |-> provider, raw |-> content],
     confidence |-> DegradedConfidence]

\* The catch block of both parsers: the degraded workflow.
FallbackResponse(provider, content) ==
    [workflow |->
        [kind |-> "object", id |-> "generated", name |-> "Generated Workflow",
         nodes |-> NodesArray(<<[id |-> "start", name |-> "Manual Trigger",
                                 type |-> ManualTriggerType,
                                 position |-> <<240, 300>>, notes |-> ""]>>),
         connections |-> ConnectionsMap(<<>>),
         metadata |-> [kind |-> "present", aiModel |-> ModelName(provider),
                       parseError |-> TRUE, confidence |-> 0]],
     explanation |-> [kind |-> "fallback", provider |-> provider, raw |-> content],
     confidence |-> DegradedConfidence]

parseWorkflowResponse(provider, content) ==
    LET try == IF provider = "claude" THEN ClaudeTryParse(content)
               ELSE OpenAITryParse(content)
    IN  IF try.threw
        THEN FallbackResponse(provider, content)
        ELSE [workflow |-> try.workflow,
              explanation |-> [kind |-> "text", provider |-> "", raw |-> <<>>],
              confidence |-> try.confidence]

\* ------------------------------------------------------------ backend adapter
\* HTTP statuses of a response that is not ok.
HttpStatuses == {401, 429, 503, 504}
\* Values of a 429 response's retry-after header (0: no header).
RetryAfterHeaders == {0, 30}

\* An error as thrown inside generateWorkflow.  status 0: the error has no
\* status (an Error raised locally, a rejected fetch, a TypeError);
\* retryAfter 0: no retryAfter property.
ThrownError(message, status, retryAfter) ==
    [message |-> message, status |-> status, retryAfter |-> retryAfter]

\* ClaudeService.handleApiError / OpenAIService.handleApiError
handleApiError(provider, status, header) ==
    ThrownError("HTTP status", status,
                IF status # 429 THEN 0
                ELSE IF provider = "claude" /\ header # 0 THEN header
                ELSE DefaultRetryAfter)

NoFailure ==
    [message |-> "", provider |-> "", code |-> "", rateLimited |-> FALSE, retryAfter |-> 0]

\* BaseAIService.formatError: code "" stands for an error without a code,
\* retryAfter 0 for one without a retryAfter.
formatError(error, provider) ==
    LET baseError == [message |-> error.message, provider |-> provider, code |-> "",
                      rateLimited |-> FALSE, retryAfter |-> 0]
    IN  IF error.status = 0 THEN baseError
        ELSE IF error.status = 401
        THEN [baseError EXCEPT !.code = "INVALID_API_KEY", !.message = "Invalid API key"]
        ELSE IF error.status = 429
        THEN [baseError EXCEPT !.code = "RATE_LIMITED", !.rateLimited = TRUE,
                               !.retryAfter = IF error.retryAfter # 0 THEN error.retryAfter
                                              ELSE DefaultRetryAfter,
                               !.message = "Rate limit exceeded (429)"]
        ELSE IF error.status \in {500, 502, 503}
        THEN [baseError EXCEPT !.code = "SERVICE_ERROR",
                               !.message = "AI service is temporarily unavailable"]
        ELSE [baseError EXCEPT !.code = "HTTP_ERROR"]

\* The lazy window reset at the head of BaseAIService.checkRateLimit.
WindowReset(status, t) ==
    IF t > status.resetTime
    THEN [requestsRemaining |-> RateLimitRPM, tokensRemaining |-> RateLimitTPM,
          resetTime |-> t + WindowTicks]
    ELSE status

\* BaseAIService.checkRateLimit: the status it leaves and whether it throws.
checkRateLimit(status, t) ==
    LET s == WindowReset(status, t)
    IN  [status |-> s, throws |-> s.requestsRemaining <= 0]

\* BaseAIService.updateRateLimit, on the rate-limit status.
updateRateLimit(status, tokensUsed) ==
    [status EXCEPT !.requestsRemaining = @ - 1, !.tokensRemaining = @ - tokensUsed]

\* BaseAIService.getRateLimitStatus: the stored status, as it is.
getRateLimitStatus(provider) == rateLimitStatus[provider]

NoResponse ==
    [workflow |-> WorkflowAbsent,
     explanation |-> [kind |-> "text", provider |-> "", raw |-> <<>>],
     confidence |-> 0, estimatedTokens |-> 0]

IdleCall ==
    [pc |-> "idle", provider |-> "claude", error |-> NoFailure, response |-> NoResponse,
     exhausted |-> FALSE, fetched |-> FALSE]

\* The window of a status is exhausted at time t.
Exhausted(status, t) ==
    /\ t <= status.resetTime
    /\ (status.requestsRemaining <= 0 \/ status.tokensRemaining <= 0)

\* generateWorkflow of an adapter, from its start to the fetch it issues: the
\* rate-limit check, then either the request goes out (pc "fetching") or the
\* catch block counts the error and throws formatError's result.
BeginCall(c, p) ==
    LET chk == checkRateLimit(rateLimitStatus[p], now)
        started == [IdleCall EXCEPT !.provider = p,
                                    !.exhausted = Exhausted(rateLimitStatus[p], now)]
    IN  /\ call[c].pc # "fetching"
        /\ rateLimitStatus' = [rateLimitStatus EXCEPT ![p] = chk.status]
        /\ IF chk.throws
           THEN /\ call' = [call EXCEPT ![c] =
                       [started EXCEPT !.pc = "threw",
                            !.error = formatError(
                                ThrownError("Rate limit exceeded. Please wait", 0, 0), p)]]
                /\ errorCount' = [errorCount EXCEPT ![p] = @ + 1]
           ELSE /\ call' = [call EXCEPT ![c] =
                       [started EXCEPT !.pc = "fetching", !.fetched = TRUE]]
                /\ UNCHANGED errorCount
        /\ UNCHANGED <<now, requestCount, tokenCount>>

\* The fetch is rejected (a network error): the catch block.
FetchRejected(c) ==
    LET p == call[c].provider
    IN  /\ call[c].pc = "fetching"
        /\ call' = [call EXCEPT ![c].pc = "threw",
                                ![c].error = formatError(ThrownError("Failed to fetch", 0, 0), p)]
        /\ errorCount' = [errorCount EXCEPT ![p] = @ + 1]
        /\ UNCHANGED <<now, rateLimitStatus, requestCount, tokenCount>>

\* The response is not ok: handleApiError's error goes through the catch block.
FetchNotOk(c, status, header) ==
    LET p == call[c].provider
    IN  /\ call[c].pc = "fetching"
        /\ call' = [call EXCEPT ![c].pc = "threw",
                                ![c].error = formatError(handleApiError(p, status, header), p)]
        /\ errorCount' = [errorCount EXCEPT ![p] = @ + 1]
        /\ UNCHANGED <<now, rateLimitStatus, requestCount, tokenCount>>

\* The response is ok but its body lacks the content: reading it throws a
\* TypeError, which the catch block formats.
FetchMalformed(c) ==
    LET p == call[c].provider
    IN  /\ call[c].pc = "fetching"
        /\ call' = [call EXCEPT ![c].pc = "threw",
                                ![c].error = formatError(
                                    ThrownError("Cannot read properties of undefined", 0, 0), p)]
        /\ errorCount' = [errorCount EXCEPT ![p] = @ + 1]
        /\ UNCHANGED <<now, rateLimitStatus, requestCount, tokenCount>>

\* The response is ok: parse the content, update the rate limit, return.
FetchOk(c, content, tokensUsed) ==
    LET p == call[c].provider
        parsedResponse == parseWorkflowResponse(p, content)
    IN  /\ call[c].pc = "fetching"
        /\ rateLimitStatus' = [rateLimitStatus EXCEPT ![p] = updateRateLimit(@, tokensUsed)]
        /\ requestCount' = [requestCount EXCEPT ![p] = @ + 1]
        /\ tokenCount' = [tokenCount EXCEPT ![p] = @ + tokensUsed]
        /\ call' = [call EXCEPT ![c].pc = "returned",
                                ![c].response =
                                    [workflow |-> parsedResponse.workflow,
                                     explanation |-> parsedResponse.explanation,
                                     confidence |-> IF parsedResponse.confidence # 0
                                                    THEN parsedResponse.confidence
                                                    ELSE DefaultConfidence,
                                     estimatedTokens |-> tokensUsed]]
        /\ UNCHANGED <<now, errorCount>>

\* Time passes.
Tick ==
    /\ now < MaxTime
    /\ now' = now + 1
    /\ UNCHANGED <<rateLimitStatus, requestCount, tokenCount, errorCount>>

\* The adapters at time 0, each after used[p] successful calls of one token
\* in its first window.
AdaptersUsed(used) ==
    /\ now = 0
    /\ rateLimitStatus = [p \in Providers |->
            [requestsRemaining |-> RateLimitRPM - used[p],
             tokensRemaining |-> RateLimitTPM - used[p],
             resetTime |-> WindowTicks]]
    /\ requestCount = used
    /\ tokenCount = used
    /\ errorCount = [p \in Providers |-> 0]

\* The adapters as constructed at time 0.
AdapterInit == AdaptersUsed([p \in Providers |-> 0])

\* ------------------------------------------------------------ backend selector
\* AvailableServices with the test requestsRemaining >= 0.
AvailableServicesNonNegative(services, status) ==
    SelectSeq(services, LAMBDA p : status[p].requestsRemaining >= 0)

\* The services of this.aiServices that pass the availability test, in the
\* Map's iteration order.
AvailableServices(services, status) ==
    SelectSeq(services, LAMBDA p : status[p].requestsRemaining > 0)

\* availableServices.reduce((cheapest, current) =>
\*     current.cost < cheapest.cost ? current : cheapest)
RECURSIVE CheapestFrom(_, _, _, _)
CheapestFrom(available, cost, cheapest, i) ==
    IF i > Len(available) THEN cheapest
    ELSE CheapestFrom(available, cost,
                      IF cost[available[i]] < cost[cheapest] THEN available[i] ELSE cheapest,
                      i + 1)
\* The reduce that replaces the cheapest service on equal cost as well.
CheapestLastOnTies(available, cost) ==
    LET lowest == {i \in 1..Len(available) :
                      \A j \in 1..Len(available) : cost[available[i]] <= cost[available[j]]}
    IN  available[Max(lowest)]

Cheapest(available, cost) == CheapestFrom(available, cost, available[1], 2)

\* availableServices.find(s => s.provider === 'claude' || s.provider === 'openai')
\*     || availableServices[0]
StrongOrFirst(available) ==
    LET strong == {i \in 1..Len(available) : available[i] \in {"claude", "openai"}}
    IN  IF strong # {} THEN available[Min(strong)] ELSE available[1]

\* ChooseService with the cost optimization tested before the preference.
ChooseServiceCostFirst(available, cost, preferred, optimizeForCost, complexity) ==
    IF optimizeForCost THEN Cheapest(available, cost)
    ELSE IF \E i \in 1..Len(available) : available[i] = preferred THEN preferred
    ELSE IF complexity = "complex" THEN StrongOrFirst(available)
    ELSE available[1]

\* The provider chosen once some service is available.
ChooseService(available, cost, preferred, optimizeForCost, complexity) ==
    IF \E i \in 1..Len(available) : available[i] = preferred THEN preferred
    ELSE IF optimizeForCost THEN Cheapest(available, cost)
    ELSE IF complexity = "complex" THEN StrongOrFirst(available)
    ELSE available[1]

\* WorkflowGenerator.selectOptimalAIModel.  services is the iteration order of
\* this.aiServices, status the rate-limit status each service reports, cost
\* its estimateCost; preferredProvider "" is an unset preference.
selectOptimalAIModel(services, status, cost, preferredProvider, optimizeForCost, complexity) ==
    LET available == AvailableServices(services, status)
        preferred == IF preferredProvider = "" THEN "claude" ELSE preferredProvider
    IN  IF Len(available) = 0
        THEN [threw |-> TRUE, provider |-> "", selectionReason |-> "",
              message |-> "No AI services available"]
        ELSE LET chosen == ChooseService(available, cost, preferred, optimizeForCost,
                                         complexity)
             IN  [threw |-> FALSE, provider |-> chosen,
                  selectionReason |-> IF chosen = preferred THEN "user_preference"
                                      ELSE "auto_selected",
                  message |-> ""]

\* ------------------------------------------------------------ pipeline stages
\* A stage either returns a value or throws a CustomError: message is the text
\* the stage puts before the cause it caught, type the CustomError's type.
StageError(message, cause, type) ==
    [thrown |-> TRUE, message |-> message, cause |-> cause, type |-> type]
NoStageError == [thrown |-> FALSE, message |-> "", cause |-> "", type |-> ""]

\* The /i flag of the keyword tests: the lower-case form of a word.
Lower(word) ==
    IF word = "Slack" THEN "slack"
    ELSE IF word = "GitHub" THEN "github"
    ELSE IF word = "If" THEN "if"
    ELSE IF word = "Send" THEN "send"
    ELSE IF word = "Say" THEN "say"
    ELSE word

IntegrationKeywords ==
    {"api", "webhook", "database", "email", "slack", "google", "github", "aws"}
LogicKeywords == {"if", "condition", "filter", "transform", "loop", "iterate"}
SchedulingKeywords == {"schedule", "cron", "daily", "weekly", "hourly"}

HasKeyword(description, keywords) ==
    \E i \in 1..Len(description) : Lower(description[i]) \in keywords

\* WorkflowGenerator.analyzeDescription; a description is its sequence of
\* space-separated words.
\* The word counts above which a description is medium and complex.
MediumWords == 20
ComplexWords == 50

\* The estimate taken from the word count alone.
estimatedComplexityByLength(wordCount, hasIntegrations, hasLogic) ==
    IF wordCount > ComplexWords THEN "complex"
    ELSE IF wordCount > MediumWords THEN "medium"
    ELSE "simple"

\* The estimate analyzeDescription assigns from its count and flags.
estimatedComplexity(wordCount, hasIntegrations, hasLogic) ==
    IF wordCount > ComplexWords \/ (hasIntegrations /\ hasLogic) THEN "complex"
    ELSE IF wordCount > MediumWords \/ hasIntegrations \/ hasLogic THEN "medium"
    ELSE "simple"

\* The analysis in which a scheduling keyword raises the estimate.
analyzeDescriptionWithScheduling(description) ==
    LET wordCount == Len(description)
        hasIntegrations == HasKeyword(description, IntegrationKeywords)
        hasLogic == HasKeyword(description, LogicKeywords)
        hasScheduling == HasKeyword(description, SchedulingKeywords)
    IN  [wordCount |-> wordCount,
         hasIntegrations |-> hasIntegrations,
         hasLogic |-> hasLogic,
         hasScheduling |-> hasScheduling,
         estimatedComplexity |->
             estimatedComplexity(wordCount, hasIntegrations \/ hasScheduling, hasLogic)]

analyzeDescription(description) ==
    LET wordCount == Len(description)
        hasIntegrations == HasKeyword(description, IntegrationKeywords)
        hasLogic == HasKeyword(description, LogicKeywords)
    IN  [wordCount |-> wordCount,
         hasIntegrations |-> hasIntegrations,
         hasLogic |-> hasLogic,
         hasScheduling |-> HasKeyword(description, SchedulingKeywords),
         estimatedComplexity |-> estimatedComplexity(wordCount, hasIntegrations, hasLogic)]

NoContext ==
    [availableNodes |-> NodesArray(<<>>),
     userPreferences |-> [errorHandling |-> FALSE, includeDocumentation |-> FALSE,
                          optimizeForCost |-> FALSE],
     analysis |-> analyzeDescription(<<>>)]

\* WorkflowGenerator.processContext with no stored n8n data: reading the words
\* of a request without a description throws inside the stage.
processContext(request, cfg) ==
    IF request.description = Undefined
    THEN [error |-> StageError("Context processing failed",
                               "Cannot read properties of undefined", "EXTENSION_ERROR"),
          value |-> NoContext]
    ELSE [error |-> NoStageError,
          value |-> [availableNodes |-> request.availableNodes,
                     userPreferences |->
                         [errorHandling |-> cfg.includeErrorHandling,
                          includeDocumentation |-> TRUE,
                          optimizeForCost |-> cfg.optimizeForCost],
                     analysis |-> analyzeDescription(request.description)]]

\* BaseAIService.estimateCost with the adapter's default model, in 1e-6
\* dollars: (inputTokens / 1000) * inputCostPer1k + (2000 / 1000) * outputCostPer1k.
estimateCost(provider, inputTokens) ==
    IF provider = "claude" THEN 15 * inputTokens + 150000
    ELSE IF provider = "openai" THEN 10 * inputTokens + 60000
    ELSE 7 * inputTokens + 42000

\* WorkflowGenerator.engineerPrompt: buildSystemPrompt slices and joins the
\* available node list, which throws when the list is no array.
engineerPrompt(context) ==
    IF context.availableNodes.kind = "object"
    THEN StageError("Prompt engineering failed", "slice is not a function",
                    "EXTENSION_ERROR")
    ELSE NoStageError

RECURSIVE PositionFrom(_, _, _, _)
\* The callback of nodes.map in optimizeNodePositions from the node at
\* 0-based index on, with the x and y the loop has reached: the node takes
\* [x, y]; after every fifth node x moves on by the spacing and y returns to
\* the top, else y moves on by the spacing.
PositionFrom(nodes, index, x, y) ==
    IF index >= Len(nodes) THEN <<>>
    ELSE <<[nodes[index + 1] EXCEPT !.position = <<x, y>>]>>
             \o (IF (index + 1) % 5 = 0
                 THEN PositionFrom(nodes, index + 1, x + 200, 300)
                 ELSE PositionFrom(nodes, index + 1, x, y + 200))

\* The layout that never starts a new column.
optimizeNodePositionsOneColumn(nodes) ==
    [i \in 1..Len(nodes) |-> [nodes[i] EXCEPT !.position = <<240, 300 + 200 * (i - 1)>>]]

\* WorkflowGenerator.optimizeNodePositions: the grid position of every node.
optimizeNodePositions(nodes) == PositionFrom(nodes, 0, 240, 300)

\* WorkflowGenerator.addDocumentationNotes
addDocumentationNotes(nodes) ==
    [i \in 1..Len(nodes) |->
        [nodes[i] EXCEPT !.notes = IF @ # "" THEN @ ELSE "Part of workflow"]]

\* WorkflowGenerator.enhanceWorkflow.  rawWorkflow is the adapter's response
\* with the provider added by callAIService; steps is the array
\* this.generationSteps refers to and timestamp the clock's reading, both of
\* which the new metadata records.  addErrorHandling and optimizeConnections
\* return their argument.
enhanceWorkflow(rawWorkflow, context, steps, timestamp) ==
    IF rawWorkflow.workflow.nodes.kind # "array"
    THEN [error |-> StageError("Workflow enhancement failed", "nodes.map is not a function",
                               "EXTENSION_ERROR"),
          value |-> WorkflowAbsent]
    ELSE LET positioned == optimizeNodePositions(rawWorkflow.workflow.nodes.items)
             documented == IF context.userPreferences.includeDocumentation
                           THEN addDocumentationNotes(positioned) ELSE positioned
         IN  [error |-> NoStageError,
              value |-> [rawWorkflow.workflow EXCEPT
                  !.metadata = [kind |-> "present", aiModel |-> rawWorkflow.provider,
                                parseError |-> FALSE,
                                confidence |-> IF rawWorkflow.confidence # 0
                                               THEN rawWorkflow.confidence
                                               ELSE DefaultConfidence,
                                timestamp |-> timestamp,
                                generationSteps |-> steps],
                  !.nodes = NodesArray(documented)]]

\* node.type.includes('trigger') || includes('webhook') || includes('manual')
IsTriggerType(type) ==
    Includes(type, KwTrigger) \/ Includes(type, KwWebhook) \/ Includes(type, KwManual)

\* Array.some / Array.find with the trigger test stop at the first match:
\* the index of the first node that matches or whose type is undefined
\* (where type.includes throws), 0 if there is none.
FirstTriggerOrUntyped(nodes) ==
    LET hits == {i \in 1..Len(nodes) :
                    nodes[i].type = Undefined \/ IsTriggerType(nodes[i].type)}
    IN  IF hits = {} THEN 0 ELSE Min(hits)

NoValidation ==
    [present |-> FALSE, isValid |-> FALSE, errors |-> <<>>, warnings |-> <<>>,
     suggestions |-> <<>>, nodeCompatibility |-> <<>>]

\* The node error pushed for a missing type only.
NodeErrorsTypeOnly(node) ==
    IF node.type = Undefined THEN <<[type |-> "node", nodeId |-> node.id]>> ELSE <<>>

\* The entries the loop over the nodes adds for one node.
NodeErrors(node) ==
    IF node.id = "" \/ node.name = "" \/ node.type = Undefined
    THEN <<[type |-> "node", nodeId |-> node.id]>>
    ELSE <<>>
NodeIsAvailable(node, availableNodes) ==
    \E k \in 1..Len(availableNodes.items) : availableNodes.items[k] = node.type
NodeCompatibility(node, availableNodes) ==
    IF Len(availableNodes.items) > 0
    THEN <<[nodeType |-> node.type,
            isCompatible |-> NodeIsAvailable(node, availableNodes)]>>
    ELSE <<>>
NodeWarnings(node, availableNodes) ==
    IF Len(availableNodes.items) > 0 /\ ~NodeIsAvailable(node, availableNodes)
    THEN <<[type |-> "best-practice", impact |-> "high", nodeId |-> node.id]>>
    ELSE <<>>

RECURSIVE Concat(_, _, _)
\* The concatenation of f(1), ..., f(n) from index i on.
Concat(f, n, i) == IF i > n THEN <<>> ELSE f[i] \o Concat(f, n, i + 1)

\* The structural pass without its error.
StructureErrorsNone(nodes) == <<>>

\* The structural pass: the error pushed for an empty node list.
StructureErrors(nodes) ==
    IF Len(nodes) = 0 THEN <<[type |-> "structure", nodeId |-> ""]>> ELSE <<>>

\* The suggestion pushed from the threshold on.
ScaleSuggestionsFromThreshold(nodeCount) ==
    IF nodeCount >= LargeWorkflow THEN <<"optimization">> ELSE <<>>

\* The performance suggestions: the one pushed for a large workflow.
ScaleSuggestions(nodeCount) ==
    IF nodeCount > LargeWorkflow THEN <<"optimization">> ELSE <<>>

\* The test of the loop over the nodes that clears validation.isValid.
MissingRequired(node) == node.id = "" \/ node.name = "" \/ node.type = Undefined

\* WorkflowGenerator.validateWorkflow.  A workflow whose nodes are no array
\* gets its structure error pushed and then throws at workflow.nodes.some;
\* so does a node without a type that the trigger test reaches.  isValid is
\* the flag the code clears next to each push of an error.
validateWorkflow(workflow, context) ==
    LET nodes == workflow.nodes.items
        n == Len(nodes)
        first == FirstTriggerOrUntyped(nodes)
        structure == StructureErrors(nodes)
        nodeErrors == Concat([i \in 1..n |-> NodeErrors(nodes[i])], n, 1)
        trigger == IF first = 0
                   THEN <<[type |-> "best-practice", impact |-> "medium", nodeId |-> ""]>>
                   ELSE <<>>
    IN  IF workflow.nodes.kind # "array"
        THEN [error |-> StageError("Workflow validation failed",
                                   "workflow.nodes.some is not a function",
                                   "VALIDATION_ERROR"),
              value |-> NoValidation]
        ELSE IF first # 0 /\ nodes[first].type = Undefined
        THEN [error |-> StageError("Workflow validation failed",
                                   "Cannot read properties of undefined",
                                   "VALIDATION_ERROR"),
              value |-> NoValidation]
        ELSE [error |-> NoStageError,
              value |->
                  [present |-> TRUE,
                   isValid |-> n # 0 /\ \A i \in 1..n : ~MissingRequired(nodes[i]),
                   errors |-> structure \o nodeErrors,
                   warnings |-> trigger \o
                       Concat([i \in 1..n |-> NodeWarnings(nodes[i], context.availableNodes)],
                              n, 1),
                   suggestions |-> ScaleSuggestions(n),
                   nodeCompatibility |->
                       Concat([i \in 1..n |->
                                  NodeCompatibility(nodes[i], context.availableNodes)], n, 1)]]

\* N8nWorkflowImporter.validateWorkflow.  Its errors are strings; type names
\* which of the three messages an error is.  A nodes value that is no array
\* cannot be iterated, and connections of a workflow without nodes throw at
\* workflow.nodes.some: the promise rejects.  The connection check looks up
\* the keys of the connections object (the edges' sources) among the node
\* ids and never looks at the targets.
importerValidateWorkflow(workflow) ==
    LET nodes == workflow.nodes.items
        n == Len(nodes)
        edges == workflow.connections.edges
        structure == IF n = 0 THEN <<[type |-> "structure", nodeId |-> ""]>> ELSE <<>>
        nodeErrors ==
            Concat([i \in 1..n |->
                       IF MissingRequired(nodes[i])
                       THEN <<[type |-> "node", nodeId |-> nodes[i].id]>> ELSE <<>>], n, 1)
        connectionErrors ==
            Concat([k \in 1..Len(edges) |->
                       IF \E i \in 1..n : nodes[i].id = edges[k].source THEN <<>>
                       ELSE <<[type |-> "connection", nodeId |-> edges[k].source]>>],
                   Len(edges), 1)
        errors == structure \o nodeErrors \o connectionErrors
    IN  IF workflow.nodes.kind = "object"
           \/ (workflow.nodes.kind = "absent" /\ Len(edges) > 0)
        THEN [error |-> StageError("", "workflow.nodes is not iterable", ""),
              value |-> NoValidation]
        ELSE [error |-> NoStageError,
              value |-> [present |-> TRUE,
                         isValid |-> errors = <<>>,
                         errors |-> errors,
                         warnings |->
                             Concat([i \in 1..n |->
                                        IF Len(nodes[i].position) # 2
                                        THEN <<[type |-> "position", impact |-> "",
                                                nodeId |-> nodes[i].id]>>
                                        ELSE <<>>], n, 1),
                         suggestions |-> <<>>,
                         nodeCompatibility |-> <<>>]]

\* WorkflowGenerator.getNodeCategory
getNodeCategory(nodeType) ==
    IF Includes(nodeType, KwTrigger) THEN "trigger"
    ELSE IF Includes(nodeType, KwHttp) \/ Includes(nodeType, KwWebhook) THEN "http"
    ELSE IF Includes(nodeType, KwDatabase) \/ Includes(nodeType, KwSql) THEN "database"
    ELSE IF Includes(nodeType, KwEmail) \/ Includes(nodeType, KwSlack) THEN "communication"
    ELSE IF Includes(nodeType, KwGoogle) \/ Includes(nodeType, KwMicrosoft) THEN "integration"
    ELSE IF Includes(nodeType, KwIf) \/ Includes(nodeType, KwSwitch) THEN "logic"
    ELSE IF Includes(nodeType, KwSet) \/ Includes(nodeType, KwCode) THEN "transform"
    ELSE "utility"

\* WorkflowGenerator.estimateExecutionTime
estimateExecutionTime(nodes, complexity) ==
    LET base == 1000 + Len(nodes) * 100
    IN  IF complexity = "complex" THEN base * 2
        ELSE IF complexity = "medium" THEN (base * 3) \div 2
        ELSE base

NoPreview ==
    [present |-> FALSE, nodeCount |-> 0, complexity |-> "", triggerType |-> "",
     nodeTypes |-> {}, estimatedExecutionTime |-> 0]

\* The class taken from the node count alone.
previewComplexityByCount(nodeCount, categoryCount) ==
    IF nodeCount > 10 THEN "complex"
    ELSE IF nodeCount > 5 THEN "medium"
    ELSE "simple"

\* The complexity generatePreview derives from the number of nodes and the
\* number of keys of its nodeTypes histogram.
previewComplexity(nodeCount, categoryCount) ==
    IF nodeCount > 10 \/ categoryCount > 4 THEN "complex"
    ELSE IF nodeCount > 5 \/ categoryCount > 2 THEN "medium"
    ELSE "simple"

\* WorkflowGenerator.generatePreview: getNodeCategory throws on a node
\* without a type.
generatePreview(workflow) ==
    LET nodes == workflow.nodes.items
        n == Len(nodes)
        categories == {getNodeCategory(nodes[i].type) : i \in 1..n}
        nodeTypes == {<<c, Cardinality({i \in 1..n : getNodeCategory(nodes[i].type) = c})>> :
                         c \in categories}
        complexity == previewComplexity(n, Cardinality(categories))
        first == FirstTriggerOrUntyped(nodes)
        triggerType ==
            IF first = 0 THEN "manual"
            ELSE IF Includes(nodes[first].type, KwWebhook) THEN "webhook"
            ELSE IF Includes(nodes[first].type, KwCron)
                    \/ Includes(nodes[first].type, KwSchedule) THEN "schedule"
            ELSE IF Includes(nodes[first].type, KwTrigger) THEN "event"
            ELSE "manual"
    IN  IF \E i \in 1..n : nodes[i].type = Undefined
        THEN [error |-> StageError("Preview generation failed",
                                   "Cannot read properties of undefined",
                                   "EXTENSION_ERROR"),
              value |-> NoPreview]
        ELSE [error |-> NoStageError,
              value |-> [present |-> TRUE, nodeCount |-> n, complexity |-> complexity,
                         triggerType |-> triggerType, nodeTypes |-> nodeTypes,
                         estimatedExecutionTime |->
                             estimateExecutionTime(nodes, complexity)]]

\* ------------------------------------------- WorkflowGenerator.generateWorkflow
DescMedium == <<"Send", "a", "Slack", "message">>
DescComplex == <<"If", "the", "api", "fails", "send", "email">>

NoRequest == [description |-> Undefined, availableNodes |-> NodesAbsent]

NoResult ==
    [returned |-> FALSE, rejected |-> FALSE, success |-> FALSE,
     workflow |-> WorkflowAbsent, validation |-> NoValidation, preview |-> NoPreview,
     error |-> "", cause |-> "", errorType |-> "", steps |-> 0, aiModel |-> "",
     keys |-> {}]

\* An invocation: where it is suspended (pc), its request, the context of
\* stage 1, and what it returned.  ran lists the stages it has entered and
\* failedAt the stage that threw (0: none); both are history, not program
\* state.
IdleInvocation ==
    [pc |-> "idle", request |-> NoRequest, context |-> NoContext, ran |-> <<>>,
     failedAt |-> 0, result |-> NoResult]

\* The entry addGenerationStep and the catch block build; owner, the
\* invocation that pushed it, stands for its input and output fields.
GenerationStep(steps, name, status, owner) ==
    [step |-> Len(steps) + 1, name |-> name, status |-> status, owner |-> owner]

\* WorkflowGenerator.addGenerationStep on the array this.generationSteps
\* refers to.
addGenerationStep(steps, name, owner) ==
    Append(steps, GenerationStep(steps, name, "success", owner))

\* What a run of pipeline stages leaves: the step array, the stages entered,
\* and the result if generateWorkflow returned (or the promise rejected).
Outcome(steps, ran, failedAt, result) ==
    [steps |-> steps, ran |-> ran, failedAt |-> failedAt, result |-> result]

\* The catch block with the caught error thrown on to the caller.
CaughtRethrown(steps, error, ran, owner) ==
    Outcome(steps, ran, Len(ran), [NoResult EXCEPT !.rejected = TRUE])

\* The catch block of generateWorkflow: the error step and the failure
\* result.  The result's error is the message (error and cause); errorType is
\* the type of the caught error, which the result holds only as the output of
\* its error step.  keys are the properties of the object returned.
Caught(steps, error, ran, owner) ==
    Outcome(Append(steps, GenerationStep(steps, "Error Handling", "error", owner)),
            ran, Len(ran),
            [NoResult EXCEPT !.returned = TRUE, !.success = FALSE,
                             !.error = error.message, !.cause = error.cause,
                             !.errorType = error.type,
                             !.keys = {"success", "error", "steps", "metadata"}])

\* The return statement at the end of the try block.
Returned(steps, ran, workflow, validation, preview, provider) ==
    Outcome(steps, ran, 0,
            [NoResult EXCEPT !.returned = TRUE, !.success = TRUE,
                             !.workflow = workflow, !.validation = validation,
                             !.preview = preview, !.aiModel = provider,
                             !.keys = {"success", "workflow", "validation", "preview",
                                       "steps", "metadata"}])

\* Stage 7 and the return, given the preview generatePreview produced.
AfterValidation(workflow, validation, preview, steps, ran, owner, provider) ==
    IF preview.error.thrown
    THEN Caught(steps, preview.error, ran \o <<"preview">>, owner)
    ELSE Returned(addGenerationStep(steps, "Preview Generation", owner),
                  ran \o <<"preview">>, workflow, validation, preview.value, provider)

\* Stage 6 onwards, given what validateWorkflow produced.
AfterEnhancement(workflow, validation, steps, ran, owner, provider) ==
    IF validation.error.thrown
    THEN Caught(steps, validation.error, ran \o <<"validate">>, owner)
    ELSE AfterValidation(workflow, validation.value, generatePreview(workflow),
                         addGenerationStep(steps, "Workflow Validation", owner),
                         ran \o <<"validate">>, owner, provider)

\* Stage 5 onwards, given what enhanceWorkflow produced.
AfterGeneration(enhanced, context, steps, ran, owner, provider) ==
    IF enhanced.error.thrown
    THEN Caught(steps, enhanced.error, ran \o <<"enhance">>, owner)
    ELSE AfterEnhancement(enhanced.value, validateWorkflow(enhanced.value, context),
                          addGenerationStep(steps, "Workflow Enhancement", owner),
                          ran \o <<"enhance">>, owner, provider)

\* generateWorkflow from the point where the adapter call c has settled:
\* the end of stage 4 (callAIService adds the provider to the response),
\* then stages 5 to 7.
AfterCall(c, steps, context, ran, owner) ==
    IF c.pc = "threw"
    THEN Caught(steps, StageError("AI service call failed", c.error.message, "API_ERROR"),
                ran, owner)
    ELSE AfterGeneration(enhanceWorkflow([workflow |-> c.response.workflow,
                                          confidence |-> c.response.confidence,
                                          provider |-> c.provider], context,
                                         addGenerationStep(steps, "Workflow Generation", owner),
                                         now),
                         context,
                         addGenerationStep(steps, "Workflow Generation", owner),
                         ran, owner, c.provider)

\* The generator before any invocation: the constructor's empty step array.
PipelineIdle ==
    /\ aiServices = <<>>
    /\ config = [preferredProvider |-> "", optimizeForCost |-> FALSE,
                 includeErrorHandling |-> TRUE]
    /\ inv = [i \in Callers |-> IdleInvocation]
    /\ stepArrays = <<<<>>>>
    /\ generationSteps = 1

\* -------------------------------------------------------------- retry handler
\* An error an operation fails with.  custom: an instance of CustomError, with
\* its type; status 0: no status property; network: its name is NetworkError
\* or its message mentions fetch.
OperationError(custom, type, status, network) ==
    [custom |-> custom, type |-> type, status |-> status, network |-> network]
NoOperationError == OperationError(FALSE, "", 0, FALSE)

\* The catch block of apiCallWithRetry: an error that is no CustomError is
\* converted to one; the status goes into the context of the new error, which
\* has no status property of its own.
ConvertError(error) ==
    IF error.custom THEN error
    ELSE IF error.network THEN OperationError(TRUE, "NETWORK_ERROR", 0, FALSE)
    ELSE IF error.status # 0 THEN OperationError(TRUE, "API_ERROR", 0, FALSE)
    ELSE OperationError(TRUE, "EXTENSION_ERROR", 0, FALSE)

\* RetryHandler.shouldRetry
shouldRetry(error) ==
    \/ error.type \in {"NETWORK_ERROR", "API_ERROR"}
    \/ error.status \in {429, 502, 503, 504}

\* The loop giving up one attempt late.
GivesUpLate(attempt, maxRetries, error) ==
    attempt = maxRetries + 1 \/ ~shouldRetry(error)

\* if (attempt === maxRetries || !retryCondition(error)) throw error
GivesUp(attempt, maxRetries, error) ==
    attempt = maxRetries \/ ~shouldRetry(error)

\* Backoff that halves.
ExponentialDelayHalving(attempt, baseDelay) == baseDelay \div (2 ^ attempt)

\* calculateDelay without its jitter: baseDelay * Math.pow(2, attempt)
ExponentialDelay(attempt, baseDelay) == baseDelay * (2 ^ attempt)

\* RetryHandler.calculateDelay, in units of 500 ms
calculateDelay(attempt, baseDelay, jitter) == ExponentialDelay(attempt, baseDelay) + jitter

\* One invocation of executeWithRetry (wrapped: through apiCallWithRetry).
\* attempt is the loop variable, calls the number of times the operation was
\* invoked, raised the error the operation last failed with, lastError that
\* error as the loop caught it, delays the waits so far without their jitter
\* and waited the last wait with it.
IdleRetry ==
    [pc |-> "idle", wrapped |-> FALSE, maxRetries |-> 0, baseDelay |-> 0, attempt |-> 0,
     calls |-> 0, delays |-> <<>>, waited |-> 0, raised |-> NoOperationError,
     lastError |-> NoOperationError, thrown |-> NoOperationError]

\* The loop is entered and the operation invoked for the first time.
ExecuteWithRetry ==
    /\ retry.pc = "idle"
    /\ retry' = [retry EXCEPT !.pc = "calling", !.attempt = 0, !.calls = 1]

\* return await operation()
OperationSucceeds ==
    /\ retry.pc = "calling"
    /\ retry' = [retry EXCEPT !.pc = "returned"]

\* The catch block of the loop: throw, or call onRetry and start the delay.
OperationFails(error, jitter) ==
    /\ retry.pc = "calling"
    /\ \E caught \in {IF retry.wrapped THEN ConvertError(error) ELSE error} :
          IF GivesUp(retry.attempt, retry.maxRetries, caught)
          THEN retry' = [retry EXCEPT !.pc = "threw", !.raised = error,
                                      !.lastError = caught, !.thrown = caught]
          ELSE retry' = [retry EXCEPT
                   !.pc = "waiting", !.raised = error, !.lastError = caught,
                   !.delays = Append(@, ExponentialDelay(retry.attempt, retry.baseDelay)),
                   !.waited = calculateDelay(retry.attempt, retry.baseDelay, jitter)]

\* The delay's timer fires: attempt++ and the operation is invoked again.
DelayElapsed ==
    /\ retry.pc = "waiting"
    /\ retry' = [retry EXCEPT !.pc = "calling", !.attempt = @ + 1, !.calls = @ + 1]

\* ------------------------------------------- background service and storage
\* The message a sender has with the background service: where its handler
\* is suspended (pc), the messages the handler has still to save (ids), the
\* array saveMessage works on (messages), the calls of sendResponse so far
\* (replies) and whether the handler threw.
IdlePort ==
    [pc |-> "idle", type |-> "", ids |-> <<>>, messages |-> <<>>, replies |-> <<>>,
     threw |-> FALSE]
MessageTypes ==
    {"GENERATE_WORKFLOW", "SAVE_MESSAGE", "GET_CONFIG", "CONTENT_SCRIPT_LOADED", "NO_SUCH_TYPE"}

sendResponse(p, response) == [p EXCEPT !.replies = Append(@, response), !.pc = "replied"]
Success == [success |-> TRUE, error |-> ""]
Failure(error) == [success |-> FALSE, error |-> error]

\* The catch block of handleMessage: the argument of sendResponse calls
\* this.errorHandler.formatError, which ErrorHandler does not define; the
\* TypeError leaves the handler before sendResponse is called, and the
\* promise of handleMessage, which the listener does not await, rejects.
CatchBlock(p) == [p EXCEPT !.pc = "rejected", !.threw = TRUE]

\* messages.splice(0, messages.length - 1000) on a list longer than that.
KeepRecent(messages) ==
    IF Len(messages) > MessageLimit
    THEN SubSeq(messages, Len(messages) - MessageLimit + 1, Len(messages))
    ELSE messages

BackgroundRest ==
    UNCHANGED <<adapterVars, callVars, selectVars, parseVars, pipelineVars, stageVars, retryVars>>

\* BackgroundService.handleMessage up to its first await, or to its end for
\* the types it answers at once.  A generation saves two messages (the
\* user's and the assistant's), SAVE_MESSAGE one.
HandleMessage(s, type) ==
    /\ port[s].pc = "idle"
    /\ sent < MaxSent
    /\ sent' = sent + 1
    /\ port' = [port EXCEPT ![s] =
            IF type = "GENERATE_WORKFLOW"
            THEN [IdlePort EXCEPT !.pc = "generating", !.type = type,
                                  !.ids = <<2 * sent + 1, 2 * sent + 2>>]
            ELSE IF type = "SAVE_MESSAGE"
            THEN [IdlePort EXCEPT !.pc = "reading", !.type = type, !.ids = <<2 * sent + 1>>]
            ELSE IF type = "GET_CONFIG"
            THEN [IdlePort EXCEPT !.pc = "config", !.type = type]
            ELSE IF type = "CONTENT_SCRIPT_LOADED"
            THEN sendResponse([IdlePort EXCEPT !.type = type], Success)
            ELSE sendResponse([IdlePort EXCEPT !.type = type],
                              Failure("Unknown message type"))]
    /\ UNCHANGED <<store, completed>>
    /\ BackgroundRest

\* BackgroundService.generateWorkflow got its result from the backend and
\* goes on to saveConversation, whose first saveMessage reads the list.
GenerationReturns(s) ==
    /\ port[s].pc = "generating"
    /\ port' = [port EXCEPT ![s].pc = "reading"]
    /\ UNCHANGED <<sent, store, completed>>
    /\ BackgroundRest

\* BackgroundService.generateWorkflow throws (the preferred provider is not
\* configured, or the backend call failed) and rethrows to handleMessage.
GenerationThrows(s) ==
    /\ port[s].pc = "generating"
    /\ port' = [port EXCEPT ![s] = CatchBlock(@)]
    /\ UNCHANGED <<sent, store, completed>>
    /\ BackgroundRest

\* StorageManager.saveMessage from the point where getMessages has resolved:
\* push, splice, and the call of chrome.storage.local.set.
GetMessagesResolves(s) ==
    /\ port[s].pc = "reading"
    /\ port' = [port EXCEPT ![s].pc = "writing",
                            ![s].messages = KeepRecent(Append(store, Head(port[s].ids)))]
    /\ UNCHANGED <<sent, store, completed>>
    /\ BackgroundRest

\* chrome.storage.local.set has written the list: saveMessage returns, and
\* the handler saves its next message or answers.
StorageSetResolves(s) ==
    /\ port[s].pc = "writing"
    /\ store' = port[s].messages
    /\ completed' = Append(completed, Head(port[s].ids))
    /\ port' = [port EXCEPT ![s] =
            IF Len(port[s].ids) > 1
            THEN [@ EXCEPT !.pc = "reading", !.ids = Tail(@)]
            ELSE sendResponse([@ EXCEPT !.ids = <<>>], Success)]
    /\ UNCHANGED sent
    /\ BackgroundRest

\* StorageManager.getConfig has resolved: GET_CONFIG is answered.
GetConfigResolves(s) ==
    /\ port[s].pc = "config"
    /\ port' = [port EXCEPT ![s] = sendResponse(@, Success)]
    /\ UNCHANGED <<sent, store, completed>>
    /\ BackgroundRest

\* The sender has its answer and may send its next message.
SenderContinues(s) ==
    /\ port[s].pc = "replied"
    /\ port' = [port EXCEPT ![s] = IdlePort]
    /\ UNCHANGED <<sent, store, completed>>
    /\ BackgroundRest

\* The configuration and the export/import of the storage manager.  An
\* object is a function on the set of its keys; a read of a key it does not
\* have gives Undefined.
ApiKeyNames == {"claudeApiKey", "openaiApiKey", "geminiApiKey"}
Get(object, key) == IF key \in DOMAIN object THEN object[key] ELSE Undefined
\* { ...a, ...b }
Spread(a, b) ==
    [k \in (DOMAIN a) \cup (DOMAIN b) |-> IF k \in DOMAIN b THEN b[k] ELSE a[k]]
\* delete object[key] for each of the keys
Delete(object, keys) == [k \in (DOMAIN object) \ keys |-> object[k]]
EmptyObject == [k \in {} |-> ""]

\* StorageManager.getDefaultConfig, with the fields the model follows.
getDefaultConfig ==
    [k \in ApiKeyNames \cup {"preferredProvider", "theme"} |->
        IF k \in ApiKeyNames THEN ""
        ELSE IF k = "preferredProvider" THEN "claude"
        ELSE "auto"]

\* The storage area: what is under the keys "config" and "messages"; has
\* tells whether the key is set.
Storage(hasConfig, cfg, msgs) == [hasConfig |-> hasConfig, config |-> cfg, messages |-> msgs]
\* StorageManager.getConfig
getConfig(storage) == IF storage.hasConfig THEN storage.config ELSE getDefaultConfig

\* exportAllData that deletes two of the three keys.
exportAllDataKeepingGemini(storage, timestamp) ==
    [version |-> "1.0.0", exportedAt |-> timestamp,
     config |-> Delete(getConfig(storage), {"claudeApiKey", "openaiApiKey"}),
     messages |-> storage.messages]

\* StorageManager.exportAllData
exportAllData(storage, timestamp) ==
    [version |-> "1.0.0", exportedAt |-> timestamp,
     config |-> Delete(getConfig(storage), ApiKeyNames),
     messages |-> storage.messages]

\* Import data: the fields importAllData reads; has tells which are present.
ImportData(hasVersion, hasConfig, cfg, hasMessages, msgs) ==
    [hasVersion |-> hasVersion, hasConfig |-> hasConfig, config |-> cfg,
     hasMessages |-> hasMessages, messages |-> msgs]

\* importAllData that merges the imported configuration last.
importAllDataMergedLast(storage, data) ==
    IF ~data.hasVersion THEN [threw |-> TRUE, storage |-> storage]
    ELSE [threw |-> FALSE,
          storage |->
              Storage(storage.hasConfig \/ data.hasConfig,
                      IF data.hasConfig THEN Spread(getConfig(storage), data.config)
                      ELSE storage.config,
                      IF data.hasMessages THEN data.messages
                      ELSE storage.messages)]

\* StorageManager.importAllData: the imported configuration is merged over
\* the current one and the three keys are then set from the current one.
importAllData(storage, data) ==
    IF ~data.hasVersion THEN [threw |-> TRUE, storage |-> storage]
    ELSE [threw |-> FALSE,
          storage |->
              Storage(storage.hasConfig \/ data.hasConfig,
                      IF data.hasConfig
                      THEN LET currentConfig == getConfig(storage)
                           IN  Spread(Spread(currentConfig, data.config),
                                      [k \in ApiKeyNames |-> Get(currentConfig, k)])
                      ELSE storage.config,
                      IF data.hasMessages THEN data.messages ELSE storage.messages)]

BackgroundIdle ==
    /\ port = [s \in Callers |-> IdlePort]
    /\ sent = 0
    /\ store = <<>>
    /\ completed = <<>>

\* ------------------------------------------------ specification: the adapters
\* Callers call generateWorkflow of one adapter directly and concurrently;
\* each call is check -> fetch (a suspension point) -> update.
AdapterTexts == {<<Obj(GoodJson)>>, <<Prose>>}

StartCall(c) ==
    /\ callsMade < MaxCalls
    /\ BeginCall(c, call[c].provider)
    /\ callsMade' = callsMade + 1
    /\ UNCHANGED <<selectVars, parseVars, pipelineVars, stageVars, retryVars, backgroundVars>>

AdapterTick == Tick /\ UNCHANGED <<callVars, selectVars, parseVars, pipelineVars, stageVars, retryVars, backgroundVars>>
AdapterFetchRejected(c) == FetchRejected(c) /\ UNCHANGED <<callsMade, selectVars, parseVars, pipelineVars, stageVars, retryVars, backgroundVars>>
AdapterFetchNotOk(c) ==
    \E status \in HttpStatuses, header \in RetryAfterHeaders :
        FetchNotOk(c, status, header) /\ UNCHANGED <<callsMade, selectVars, parseVars, pipelineVars, stageVars, retryVars, backgroundVars>>
AdapterFetchMalformed(c) == FetchMalformed(c) /\ UNCHANGED <<callsMade, selectVars, parseVars, pipelineVars, stageVars, retryVars, backgroundVars>>
AdapterFetchOk(c) ==
    \E text \in AdapterTexts, tokensUsed \in 1..MaxTokensUsed :
        FetchOk(c, text, tokensUsed) /\ UNCHANGED <<callsMade, selectVars, parseVars, pipelineVars, stageVars, retryVars, backgroundVars>>

\* The parts of the state a specification does not use stay as they are here.
NoSelIn ==
    [services |-> <<>>, remaining |-> [p \in Providers |-> 0],
     cost |-> [p \in Providers |-> 1], preferredProvider |-> "",
     optimizeForCost |-> FALSE, complexity |-> "simple"]
NoSelOut == [done |-> FALSE, threw |-> FALSE, provider |-> "", selectionReason |-> ""]
NoParse == [done |-> FALSE, out |-> FallbackResponse("claude", <<>>)]
SelectIdle == selIn = NoSelIn /\ selOut = NoSelOut
ParseIdle == rawText = <<>> /\ parseOut = [p \in Adapters |-> NoParse]
CallsIdle == call = [c \in Callers |-> IdleCall] /\ callsMade = 0
NoStageIn == [stage |-> "none"]
NoStageOut == [done |-> FALSE, graphs |-> <<>>]
StageIdle == stageIn = NoStageIn /\ stageOut = NoStageOut
RetryIdle == retry = IdleRetry

InitAdapter ==
    /\ AdapterInit
    /\ SelectIdle
    /\ ParseIdle
    /\ StageIdle
    /\ RetryIdle
    /\ BackgroundIdle
    /\ PipelineIdle
    /\ \E p \in Adapters : call = [c \in Callers |-> [IdleCall EXCEPT !.provider = p]]
    /\ callsMade = 0

NextAdapter ==
    \/ AdapterTick
    \/ \E c \in Callers : StartCall(c)
    \/ \E c \in Callers : AdapterFetchRejected(c)
    \/ \E c \in Callers : AdapterFetchNotOk(c)
    \/ \E c \in Callers : AdapterFetchMalformed(c)
    \/ \E c \in Callers : AdapterFetchOk(c)

SpecAdapter == InitAdapter /\ [][NextAdapter]_vars

\* The adapters with the scheduling the program can count on: the clock moves
\* on.  Whether and when the provider answers a fetch is not up to the
\* program, so no outcome of a fetch is fair; the code sets no timer and
\* passes no abort signal that would end a fetch from its side.
SpecAdapterFair == InitAdapter /\ [][NextAdapter]_vars /\ WF_vars(AdapterTick)

\* ------------------------------------------------ specification: the selector
\* selectOptimalAIModel applied to every availability snapshot, preference
\* and order of the configured services.
RECURSIVE Orders(_)
\* The sequences without repetition over the set S.
Orders(S) ==
    {<<>>} \cup UNION {{<<p>> \o o : o \in Orders(S \ {p})} : p \in S}

SelInputs ==
    [services : Orders(Providers),
     remaining : [Providers -> -1..1],
     cost : [Providers -> 1..MaxCost],
     preferredProvider : Providers \cup {""},
     optimizeForCost : BOOLEAN,
     complexity : {"simple", "complex"}]

\* The snapshot the selector reads: getRateLimitStatus of each service.
Snapshot(in) == [p \in Providers |-> [requestsRemaining |-> in.remaining[p]]]

ApplySelector ==
    /\ ~selOut.done
    /\ LET r == selectOptimalAIModel(selIn.services, Snapshot(selIn), selIn.cost,
                                     selIn.preferredProvider, selIn.optimizeForCost,
                                     selIn.complexity)
       IN  selOut' = [done |-> TRUE, threw |-> r.threw, provider |-> r.provider,
                      selectionReason |-> r.selectionReason]
    /\ UNCHANGED <<selIn, adapterVars, callVars, parseVars, pipelineVars, stageVars, retryVars, backgroundVars>>

InitSelect ==
    /\ AdapterInit
    /\ CallsIdle
    /\ ParseIdle
    /\ PipelineIdle
    /\ StageIdle
    /\ RetryIdle
    /\ BackgroundIdle
    /\ selIn \in SelInputs
    /\ selOut = NoSelOut

NextSelect == ApplySelector

SpecSelect == InitSelect /\ [][NextSelect]_vars

\* -------------------------------------------------- specification: the parsers
\* parseWorkflowResponse of each adapter applied to every raw text of at most
\* MaxSegments segments.

\* The raw texts of n segments.
TextsOfLength(n) == [1..n -> Segments]

ApplyParser(p) ==
    /\ ~parseOut[p].done
    /\ parseOut' = [parseOut EXCEPT ![p] =
            [done |-> TRUE, out |-> parseWorkflowResponse(p, rawText)]]
    /\ UNCHANGED <<rawText, adapterVars, callVars, selectVars, pipelineVars, stageVars, retryVars, backgroundVars>>

InitParse ==
    /\ AdapterInit
    /\ PipelineIdle
    /\ CallsIdle
    /\ SelectIdle
    /\ StageIdle
    /\ RetryIdle
    /\ BackgroundIdle
    /\ \E n \in 0..MaxSegments : rawText \in TextsOfLength(n)
    /\ parseOut = [p \in Adapters |-> NoParse]

NextParse == \E p \in Adapters : ApplyParser(p)

SpecParse == InitParse /\ [][NextParse]_vars

\* -------------------------------------------- specification: stages on their own
\* The nodes the stage inputs are built from: two complete nodes, one that
\* already carries a position and notes, and three that miss a required
\* property.
StageNodes ==
    {Node("1", "On issue", GithubTriggerType),
     Node("2", "Slack", SlackType),
     [id |-> "5", name |-> "Mail", type |-> SlackType, position |-> <<0, 0>>,
      notes |-> "Sends the mail"],
     Node("3", "Step", Undefined),
     Node("4", "", SlackType),
     Node("", "Orphan", ManualTriggerType),
     Node("6", "Every day", ScheduleTriggerType)}
NodeLists == UNION {[1..n -> StageNodes] : n \in 0..MaxNodes}
\* A node list one longer than the size that draws the optimization suggestion.
ManyNodes == [i \in 1..(LargeWorkflow + 1) |-> Node("2", "Slack", SlackType)]
\* Node lists at and beyond the size that draws the suggestion.
LargeNodeLists ==
    {[i \in 1..n |-> Node("2", "Slack", IF i % 2 = 1 THEN ManualTriggerType ELSE SlackType)] :
        n \in {LargeWorkflow, LargeWorkflow + 5}}
StageConnections ==
    {ConnectionsAbsent, ConnectionsMap(<<>>)}
        \cup {ConnectionsMap(<<[source |-> src, target |-> tgt]>>) :
                  src \in {"1", "On issue", "Ghost"}, tgt \in {"2", "Slack", "Missing"}}
StageWorkflows ==
    {WorkflowObject("wf1", nodes, connections, BackendMetadata) :
        nodes \in {NodesAbsent, NodesObject}
                     \cup {NodesArray(l) : l \in NodeLists \cup {ManyNodes} \cup LargeNodeLists},
        connections \in StageConnections}
AvailableSets ==
    {NodesArray(<<>>), NodesArray(<<SlackType>>),
     NodesArray(<<GithubTriggerType, SlackType, ManualTriggerType>>)}
StageContexts ==
    {[NoContext EXCEPT !.availableNodes = a, !.userPreferences.includeDocumentation = d] :
        a \in AvailableSets, d \in BOOLEAN}

\* Parser, enhancer and validator in a row, as generateWorkflow chains them
\* after a backend call of the given provider returned the given text.
ChainInputs ==
    [stage : {"chain"}, provider : Adapters,
     text : UNION {TextsOfLength(n) : n \in 0..1}, context : StageContexts]
ValidatorInputs == [stage : {"validate"}, workflow : StageWorkflows, context : StageContexts]

ApplyChain ==
    /\ stageIn.stage = "chain"
    /\ ~stageOut.done
    /\ \E response \in {parseWorkflowResponse(stageIn.provider, stageIn.text)} :
       \E enhanced \in {enhanceWorkflow([workflow |-> response.workflow,
                                          confidence |-> response.confidence,
                                          provider |-> stageIn.provider],
                                         stageIn.context, <<>>, now)} :
          stageOut' = [done |-> TRUE, response |-> response, enhanced |-> enhanced,
                       validation |->
                           IF enhanced.error.thrown
                           THEN [error |-> NoStageError, value |-> NoValidation]
                           ELSE validateWorkflow(enhanced.value, stageIn.context)]
    /\ UNCHANGED <<stageIn, adapterVars, callVars, selectVars, parseVars, pipelineVars,
                   retryVars, backgroundVars>>

ApplyValidator ==
    /\ stageIn.stage = "validate"
    /\ ~stageOut.done
    /\ stageOut' = [done |-> TRUE,
                    validation |-> validateWorkflow(stageIn.workflow, stageIn.context)]
    /\ UNCHANGED <<stageIn, adapterVars, callVars, selectVars, parseVars, pipelineVars,
                   retryVars, backgroundVars>>

\* The enhancer applied to a response and then to its own output.  The clock
\* and the generator's trace at the second application are those of the first
\* or later ones.
EnhancerWorkflows ==
    {w \in StageWorkflows :
        w.connections \in {ConnectionsAbsent,
                           ConnectionsMap(<<[source |-> "On issue", target |-> "Slack"]>>)}}
EnhancerInputs ==
    [stage : {"enhance"},
     rawWorkflow : [workflow : EnhancerWorkflows, provider : Adapters,
                    confidence : {0, 95}],
     context : {c \in StageContexts : c.availableNodes = NodesArray(<<>>)},
     times : {<<0, 0>>, <<0, 1>>},
     traces : {<<<<>>, <<>>>>,
               <<<<>>, addGenerationStep(<<>>, "Workflow Enhancement", 1)>>}]

ApplyEnhancer ==
    /\ stageIn.stage = "enhance"
    /\ ~stageOut.done
    /\ \E k \in {Len(stageOut.graphs) + 1} :
       \E enhanced \in
            {enhanceWorkflow(IF k = 1 THEN stageIn.rawWorkflow
                             ELSE [stageIn.rawWorkflow EXCEPT
                                      !.workflow = stageOut.graphs[k - 1].value],
                             stageIn.context, stageIn.traces[k], stageIn.times[k])} :
          stageOut' = [done |-> k = 2 \/ enhanced.error.thrown,
                       graphs |-> Append(stageOut.graphs, enhanced)]
    /\ UNCHANGED <<stageIn, adapterVars, callVars, selectVars, parseVars, pipelineVars,
                   retryVars, backgroundVars>>

ImporterInputs == [stage : {"import"}, workflow : StageWorkflows]

\* The descriptions the analysis is applied to: with and without keywords,
\* and plain ones on both sides of the two word counts.
DescSlackIssue ==
    <<"Send", "a", "Slack", "message", "when", "a", "new", "GitHub", "issue", "is",
      "created">>
PlainDescription(n) == [i \in 1..n |-> "word"]
Descriptions ==
    {DescSlackIssue, DescMedium, DescComplex, <<"Say", "hello">>, <<"If", "idle", "wait">>,
     <<"Run", "it", "daily">>, <<"Send", "email", "daily">>,
     <<"If", "the", "api", "fails", "retry", "hourly">>}
        \cup {PlainDescription(n) :
                  n \in {MediumWords, MediumWords + 1, ComplexWords, ComplexWords + 1}}
AnalyzerInputs == [stage : {"analyze"}, description : Descriptions]

\* The graphs the preview is taken of.  generateWorkflow hands generatePreview
\* the enhancer's output, whose nodes are an array; the types are those of
\* every category, of the trigger kinds, and one that holds the keywords of
\* two categories.
PreviewTypes ==
    {ManualTriggerType, GithubTriggerType, ScheduleTriggerType, WebhookType, HttpRequestType,
     MysqlType, SlackType, GoogleSheetsType, IfType, SetType, CronType, NoOpType,
     EventTriggerType, CronTriggerType, GoogleSqlType}
FiveCategories == <<EventTriggerType, HttpRequestType, MysqlType, SlackType, GoogleSheetsType>>
\* n nodes whose types run through the given ones in turn.
MixedNodes(n, types) ==
    [i \in 1..n |-> Node("n", "Step", types[((i - 1) % Len(types)) + 1])]
PreviewNodeLists ==
    UNION {[1..n -> {Node("n", "Step", t) : t \in PreviewTypes}] : n \in 0..MaxNodes}
        \cup {MixedNodes(n, <<SlackType>>) : n \in {5, 6, 10, 11}}
        \cup {MixedNodes(n, FiveCategories) : n \in {3, 5, 25}}
        \cup {MixedNodes(n, <<SlackType, IfType>>) : n \in {LargeWorkflow, LargeWorkflow + 1}}
PreviewInputs ==
    [stage : {"preview"},
     workflow : {WorkflowObject("wf1", NodesArray(l), ConnectionsMap(<<>>), BackendMetadata) :
                    l \in PreviewNodeLists},
     estimate : {"simple", "complex"}]

\* The stored states and the data of the export and the import: stored
\* configurations with and without keys, one that lacks a key field, none;
\* import data with and without version, configuration, key fields and
\* messages.
KeyValues == {"", "sk-1", "sk-2"}
StoredConfigs ==
    {Spread(getDefaultConfig, keys) : keys \in [ApiKeyNames -> KeyValues]}
        \cup {Delete(Spread(getDefaultConfig, [k \in ApiKeyNames |-> "sk-1"]), {"geminiApiKey"})}
Storages ==
    {Storage(TRUE, c, m) : c \in StoredConfigs, m \in {<<>>, <<1, 2>>}}
        \cup {Storage(FALSE, EmptyObject, <<>>)}
ImportedConfigs ==
    {EmptyObject, [k \in {"theme"} |-> "dark"],
     [k \in {"theme", "claudeApiKey"} |-> IF k = "theme" THEN "dark" ELSE "sk-9"],
     [k \in ApiKeyNames |-> "sk-9"]}
ImportedData ==
    {ImportData(v, TRUE, c, m # <<0>>, IF m = <<0>> THEN <<>> ELSE m) :
        v \in BOOLEAN, c \in ImportedConfigs, m \in {<<0>>, <<>>, <<7>>}}
        \cup {ImportData(TRUE, FALSE, EmptyObject, TRUE, <<7>>)}
ExportInputs == [stage : {"export"}, storage : Storages, time : 0..1]
ImportInputs == [stage : {"importData"}, storage : Storages, data : ImportedData]

ApplyExport ==
    /\ stageIn.stage = "export"
    /\ ~stageOut.done
    /\ stageOut' = [done |-> TRUE, data |-> exportAllData(stageIn.storage, stageIn.time)]
    /\ UNCHANGED <<stageIn, adapterVars, callVars, selectVars, parseVars, pipelineVars,
                   retryVars, backgroundVars>>

ApplyImportData ==
    /\ stageIn.stage = "importData"
    /\ ~stageOut.done
    /\ stageOut' = [done |-> TRUE, imported |-> importAllData(stageIn.storage, stageIn.data)]
    /\ UNCHANGED <<stageIn, adapterVars, callVars, selectVars, parseVars, pipelineVars,
                   retryVars, backgroundVars>>

\* The preview stage of an invocation whose context carries the estimate.
ApplyPreview ==
    /\ stageIn.stage = "preview"
    /\ ~stageOut.done
    /\ stageOut' = [done |-> TRUE, preview |-> generatePreview(stageIn.workflow)]
    /\ UNCHANGED <<stageIn, adapterVars, callVars, selectVars, parseVars, pipelineVars,
                   retryVars, backgroundVars>>

ApplyAnalyzer ==
    /\ stageIn.stage = "analyze"
    /\ ~stageOut.done
    /\ stageOut' = [done |-> TRUE, analysis |-> analyzeDescription(stageIn.description)]
    /\ UNCHANGED <<stageIn, adapterVars, callVars, selectVars, parseVars, pipelineVars,
                   retryVars, backgroundVars>>

ApplyImporter ==
    /\ stageIn.stage = "import"
    /\ ~stageOut.done
    /\ stageOut' = [done |-> TRUE, validation |-> importerValidateWorkflow(stageIn.workflow)]
    /\ UNCHANGED <<stageIn, adapterVars, callVars, selectVars, parseVars, pipelineVars,
                   retryVars, backgroundVars>>

InitStages ==
    /\ AdapterInit
    /\ CallsIdle
    /\ SelectIdle
    /\ ParseIdle
    /\ PipelineIdle
    /\ RetryIdle
    /\ BackgroundIdle
    /\ stageIn \in ChainInputs \cup ValidatorInputs \cup ImporterInputs \cup EnhancerInputs
                    \cup AnalyzerInputs \cup PreviewInputs \cup ExportInputs \cup ImportInputs
    /\ stageOut = NoStageOut

NextStages ==
    \/ ApplyChain
    \/ ApplyValidator
    \/ ApplyImporter
    \/ ApplyEnhancer
    \/ ApplyAnalyzer
    \/ ApplyPreview
    \/ ApplyExport
    \/ ApplyImportData

SpecStages == InitStages /\ [][NextStages]_vars

\* ------------------------------------------- specification: the retry handler
\* The errors an operation fails with: plain errors with and without an HTTP
\* status, a rejected fetch, and CustomErrors of three types.
OperationErrors ==
    {OperationError(FALSE, "", st, FALSE) : st \in {0, 400, 401, 429, 503}}
        \cup {OperationError(FALSE, "", 0, TRUE)}
        \cup {OperationError(TRUE, t, 0, FALSE) :
                  t \in {"VALIDATION_ERROR", "API_ERROR", "NETWORK_ERROR"}}

RetryIdleRest ==
    UNCHANGED <<adapterVars, callVars, selectVars, parseVars, pipelineVars, stageVars,
                backgroundVars>>
RetryStart == ExecuteWithRetry /\ RetryIdleRest
RetrySucceeds == OperationSucceeds /\ RetryIdleRest
RetryFails ==
    \E error \in OperationErrors, jitter \in 0..MaxJitter :
        OperationFails(error, jitter) /\ RetryIdleRest
RetryDelayElapsed == DelayElapsed /\ RetryIdleRest

InitRetry ==
    /\ AdapterInit
    /\ CallsIdle
    /\ SelectIdle
    /\ ParseIdle
    /\ PipelineIdle
    /\ StageIdle
    /\ BackgroundIdle
    /\ \E wrapped \in BOOLEAN, maxRetries \in 0..MaxRetries, baseDelay \in 0..MaxBaseDelay :
          retry = [IdleRetry EXCEPT !.wrapped = wrapped, !.maxRetries = maxRetries,
                                    !.baseDelay = baseDelay]

NextRetry ==
    \/ RetryStart
    \/ RetrySucceeds
    \/ RetryFails
    \/ RetryDelayElapsed

SpecRetry == InitRetry /\ [][NextRetry]_vars

\* ---------------------------------- specification: selection over the windows
\* Stage 2 of generateWorkflow and the backend call it leads to, repeated
\* while the clock moves through the rate-limit windows: the selector reads
\* every adapter's getRateLimitStatus and the selected adapter's
\* generateWorkflow runs checkRateLimit.  selOut holds the latest selection,
\* the services it found available and the number of selections so far.
NoSelection ==
    [done |-> FALSE, threw |-> FALSE, provider |-> "", selectionReason |-> "",
     available |-> <<>>, count |-> 0]

WindowSelect(c) ==
    /\ call[c].pc # "fetching"
    /\ selOut.count < MaxCalls
    /\ \E status \in {[p \in Providers |-> getRateLimitStatus(p)]} :
       \E selected \in {selectOptimalAIModel(aiServices, status,
                              [p \in Providers |-> estimateCost(p, Len(DescMedium))],
                              config.preferredProvider, config.optimizeForCost, "medium")} :
          /\ selOut' = [done |-> TRUE, threw |-> selected.threw,
                        provider |-> selected.provider,
                        selectionReason |-> selected.selectionReason,
                        available |-> AvailableServices(aiServices, status),
                        count |-> selOut.count + 1]
          /\ IF selected.threw
             THEN UNCHANGED <<adapterVars, callVars>>
             ELSE BeginCall(c, selected.provider) /\ callsMade' = callsMade + 1
    /\ UNCHANGED <<selIn, parseVars, pipelineVars, stageVars, retryVars, backgroundVars>>

WindowTick == Tick /\ UNCHANGED <<callVars, selectVars, parseVars, pipelineVars, stageVars, retryVars, backgroundVars>>
WindowFetchRejected(c) ==
    FetchRejected(c) /\ UNCHANGED <<callsMade, selectVars, parseVars, pipelineVars, stageVars, retryVars, backgroundVars>>
WindowFetchOk(c) ==
    FetchOk(c, <<Obj(GoodJson)>>, 1)
        /\ UNCHANGED <<callsMade, selectVars, parseVars, pipelineVars, stageVars, retryVars, backgroundVars>>

InitWindow ==
    /\ \E used \in [Adapters -> {0, RateLimitRPM}] :
          AdaptersUsed([p \in Providers |-> IF p \in Adapters THEN used[p] ELSE 0])
    /\ CallsIdle
    /\ ParseIdle
    /\ StageIdle
    /\ RetryIdle
    /\ BackgroundIdle
    /\ selIn = NoSelIn
    /\ selOut = NoSelection
    /\ aiServices \in {o \in Orders(Adapters) : Len(o) = Cardinality(Adapters)}
    /\ config \in {[preferredProvider |-> "", optimizeForCost |-> FALSE,
                     includeErrorHandling |-> TRUE],
                    [preferredProvider |-> "openai", optimizeForCost |-> TRUE,
                     includeErrorHandling |-> TRUE]}
    /\ inv = [i \in Callers |-> IdleInvocation]
    /\ stepArrays = <<<<>>>>
    /\ generationSteps = 1

NextWindow ==
    \/ WindowTick
    \/ \E c \in Callers : WindowSelect(c)
    \/ \E c \in Callers : WindowFetchRejected(c)
    \/ \E c \in Callers : WindowFetchOk(c)

SpecWindow == InitWindow /\ [][NextWindow]_vars

\* ------------------------------------------------ specification: the pipeline
\* Callers invoke generateWorkflow of one WorkflowGenerator concurrently,
\* within one rate-limit window; an invocation is suspended while it reads the
\* storage and while its adapter call is in flight.
Requests ==
    {[description |-> DescMedium, availableNodes |-> NodesArray(<<SlackType>>)],
     [description |-> Undefined, availableNodes |-> NodesArray(<<SlackType>>)],
     [description |-> DescComplex, availableNodes |-> NodesObject]}

PipelineTexts ==
    {<<Obj(GoodJson)>>, <<Prose>>, <<Obj(ObjectNodesJson)>>, <<Obj(UntypedNodeJson)>>,
     <<Obj(TriggerThenUntypedJson)>>, <<Obj(EmptyNodesJson)>>}

\* The invocation i ends (or goes on) as the outcome says.
Settle(i, outcome, pc, context) ==
    \E o \in {outcome} :
    /\ stepArrays' = [stepArrays EXCEPT ![generationSteps] = o.steps]
    /\ inv' = [inv EXCEPT ![i] =
            [pc |-> IF o.result.returned \/ o.result.rejected THEN "done" ELSE pc,
             request |-> inv[i].request,
             context |-> context,
             ran |-> o.ran,
             failedAt |-> o.failedAt,
             result |-> IF o.result.returned
                        THEN [o.result EXCEPT !.steps = generationSteps]
                        ELSE o.result]]

\* generateWorkflow is called: the step array is replaced by a new one and
\* processContext starts reading the storage.
GenStart(i) ==
    \E request \in Requests :
        /\ inv[i].pc = "idle"
        /\ stepArrays' = Append(stepArrays, <<>>)
        /\ generationSteps' = Len(stepArrays) + 1
        /\ inv' = [inv EXCEPT ![i] = [IdleInvocation EXCEPT !.pc = "context",
                                                            !.request = request,
                                                            !.ran = <<"context">>]]
        /\ UNCHANGED <<adapterVars, callVars, selectVars, parseVars, stageVars, retryVars, backgroundVars, aiServices, config>>

\* The storage reads of stage 1 are done: the rest of processContext, its
\* step, and selectOptimalAIModel up to its read of the configuration.
GenContext(i) ==
    LET steps == stepArrays[generationSteps]
        r == processContext(inv[i].request, config)
    IN  /\ inv[i].pc = "context"
        /\ IF r.error.thrown
           THEN Settle(i, Caught(steps, r.error, inv[i].ran, i), "done", NoContext)
           ELSE Settle(i, Outcome(addGenerationStep(steps, "Context Processing", i),
                                  inv[i].ran \o <<"select">>, 0, NoResult),
                       "select", r.value)
        /\ UNCHANGED <<adapterVars, callVars, selectVars, parseVars, stageVars, retryVars, backgroundVars, aiServices, config,
                       generationSteps>>

\* Stages 2 and 3 and the start of stage 4: the selection, the prompt, and
\* the adapter's generateWorkflow up to its fetch.
GenSelect(i) ==
    LET steps == stepArrays[generationSteps]
        context == inv[i].context
        ran == inv[i].ran
        cost == [p \in Providers |-> estimateCost(p, Len(inv[i].request.description))]
        selected == selectOptimalAIModel(aiServices,
                        [p \in Providers |-> getRateLimitStatus(p)], cost,
                        config.preferredProvider, context.userPreferences.optimizeForCost,
                        context.analysis.estimatedComplexity)
        s2 == addGenerationStep(steps, "AI Model Selection", i)
        prompt == engineerPrompt(context)
        s3 == addGenerationStep(s2, "Prompt Engineering", i)
    IN  /\ inv[i].pc = "select"
        /\ IF selected.threw
           THEN /\ Settle(i, Caught(steps,
                                    StageError("AI model selection failed", selected.message,
                                               "EXTENSION_ERROR"), ran, i),
                          "done", context)
                /\ UNCHANGED <<adapterVars, callVars>>
           ELSE IF prompt.thrown
           THEN /\ Settle(i, Caught(s2, prompt, ran \o <<"prompt">>, i), "done", context)
                /\ UNCHANGED <<adapterVars, callVars>>
           ELSE /\ BeginCall(i, selected.provider)
                /\ callsMade' = callsMade + 1
                /\ IF call'[i].pc = "threw"
                   THEN Settle(i, AfterCall(call'[i], s3, context,
                                            ran \o <<"prompt", "call">>, i),
                               "done", context)
                   ELSE Settle(i, Outcome(s3, ran \o <<"prompt", "call">>, 0, NoResult),
                               "await", context)
        /\ UNCHANGED <<selectVars, parseVars, stageVars, retryVars, backgroundVars, aiServices, config, generationSteps>>

\* The adapter call of invocation i has settled and the pipeline runs on to
\* its return.
Resume(i) ==
    /\ inv[i].pc = "await"
    /\ Settle(i, AfterCall(call'[i], stepArrays[generationSteps], inv[i].context,
                           inv[i].ran, i),
              "done", inv[i].context)
    /\ UNCHANGED <<callsMade, selectVars, parseVars, stageVars, retryVars, backgroundVars, aiServices, config, generationSteps>>

GenFetchRejected(i) == FetchRejected(i) /\ Resume(i)
GenFetchNotOk(i) ==
    \E status \in HttpStatuses, header \in RetryAfterHeaders :
        FetchNotOk(i, status, header) /\ Resume(i)
GenFetchMalformed(i) == FetchMalformed(i) /\ Resume(i)
GenFetchOk(i) ==
    \E text \in PipelineTexts : FetchOk(i, text, 1) /\ Resume(i)

\* The adapters may have been used before (they are shared with the
\* background service): each has its whole window left or none of it.
Init ==
    /\ \E used \in [Adapters -> {0, RateLimitRPM}] :
          AdaptersUsed([p \in Providers |-> IF p \in Adapters THEN used[p] ELSE 0])
    /\ CallsIdle
    /\ SelectIdle
    /\ ParseIdle
    /\ StageIdle
    /\ RetryIdle
    /\ BackgroundIdle
    /\ aiServices \in {o \in Orders(Adapters) : Len(o) = Cardinality(Adapters)}
    /\ config \in {[preferredProvider |-> "", optimizeForCost |-> FALSE,
                     includeErrorHandling |-> TRUE],
                    [preferredProvider |-> "openai", optimizeForCost |-> TRUE,
                     includeErrorHandling |-> TRUE]}
    /\ inv = [i \in Callers |-> IdleInvocation]
    /\ stepArrays = <<<<>>>>
    /\ generationSteps = 1

Next ==
    \/ \E i \in Callers : GenStart(i)
    \/ \E i \in Callers : GenContext(i)
    \/ \E i \in Callers : GenSelect(i)
    \/ \E i \in Callers : GenFetchRejected(i)
    \/ \E i \in Callers : GenFetchNotOk(i)
    \/ \E i \in Callers : GenFetchMalformed(i)
    \/ \E i \in Callers : GenFetchOk(i)

Spec == Init /\ [][Next]_vars

\* ------------------------------------- specification: the background service
\* The stored list at the start: n messages saved earlier, the oldest first;
\* earlier messages have negative ids.
OldMessages(n) == [i \in 1..n |-> i - n - 1]

InitBackground ==
    /\ AdapterInit
    /\ CallsIdle
    /\ SelectIdle
    /\ ParseIdle
    /\ PipelineIdle
    /\ StageIdle
    /\ RetryIdle
    /\ port = [s \in Callers |-> IdlePort]
    /\ sent = 0
    /\ store \in {OldMessages(n) : n \in {0, MessageLimit - 1, MessageLimit}}
    /\ completed = <<>>

NextBackground ==
    \/ \E s \in Callers, type \in MessageTypes : HandleMessage(s, type)
    \/ \E s \in Callers : GenerationReturns(s)
    \/ \E s \in Callers : GenerationThrows(s)
    \/ \E s \in Callers : GetMessagesResolves(s)
    \/ \E s \in Callers : StorageSetResolves(s)
    \/ \E s \in Callers : GetConfigResolves(s)
    \/ \E s \in Callers : SenderContinues(s)

SpecBackground == InitBackground /\ [][NextBackground]_vars

\* ------------------------------------------------------------------ properties
\* No segment of the text is a brace-delimited chunk that decodes to a complete
\* response (an object with a workflow object that has nodes, and an
\* explanation): whatever is extracted from it, some step of the parse fails.
NoCompleteResponse(text) ==
    \A i \in 1..Len(text) :
        ~ /\ text[i].seg = "obj"
          /\ text[i].val.kind = "object"
          /\ text[i].val.workflow.kind = "object"
          /\ text[i].val.workflow.nodes.kind # "absent"
          /\ text[i].val.explanation = "text"

\* out is the degraded result for the raw text.
IsDegraded(out, text) ==
    /\ out.workflow.kind = "object"
    /\ out.workflow.nodes.kind = "array"
    /\ Len(out.workflow.nodes.items) = 1
    /\ out.workflow.nodes.items[1].type = ManualTriggerType
    /\ out.workflow.connections = ConnectionsMap(<<>>)
    /\ out.workflow.metadata.parseError
    /\ out.confidence = DegradedConfidence
    /\ out.explanation.kind = "fallback"
    /\ out.explanation.raw = text

\* out is a response the parser accepted.
IsAccepted(out) ==
    /\ out.workflow.kind = "object"
    /\ out.workflow.nodes.kind # "absent"
    /\ out.workflow.id # ""
    /\ out.workflow.connections.kind = "map"
    /\ out.workflow.metadata.kind = "present"
    /\ out.explanation.kind = "text"

\* C2: parseWorkflowResponse of either adapter always returns a result (the
\* degraded one or an accepted response, never an exception or a workflow
\* without nodes), and for every raw text that holds no complete response
\* (no JSON, bad syntax, missing workflow, explanation or nodes) the result is
\* the degraded one: one manual-trigger node, no connections, parseError
\* set, confidence 0.1 and the raw text carried in the explanation.
C2_ParserDegrades ==
    \A p \in Adapters :
        parseOut[p].done =>
            /\ IsDegraded(parseOut[p].out, rawText) \/ IsAccepted(parseOut[p].out)
            /\ NoCompleteResponse(rawText) => IsDegraded(parseOut[p].out, rawText)

C2_Witness ==
    /\ rawText = <<Prose, Obj(NoNodesJson)>>
    /\ \A p \in Adapters : parseOut[p].done /\ IsDegraded(parseOut[p].out, rawText)

\* C5: the remaining-requests and remaining-tokens counters of every adapter
\* are never negative.
C5_NeverNegative ==
    \A p \in Adapters :
        /\ rateLimitStatus[p].requestsRemaining >= 0
        /\ rateLimitStatus[p].tokensRemaining >= 0

\* C6: a call that starts while the window is exhausted (no requests or no
\* tokens left, reset time not passed) fails at once with a rate-limited
\* error that carries a retry-after, and sends no request.
C6_FailFast ==
    \A c \in Callers :
        call[c].exhausted =>
            /\ call[c].pc = "threw"
            /\ ~call[c].fetched
            /\ call[c].error.rateLimited
            /\ call[c].error.retryAfter > 0

\* The calls of provider p that are awaiting their response.
InFlight(p) == {c \in Callers : call[c].pc = "fetching" /\ call[c].provider = p}

\* C7: inside one window the calls admitted to the network (in flight or
\* completed) never exceed the request limit, and after k successful calls
\* requestsRemaining = limit - k and requestCount = k.
C7_NoOverAdmission ==
    \A p \in Adapters :
        rateLimitStatus[p].resetTime = WindowTicks =>
            /\ Cardinality(InFlight(p)) + requestCount[p] <= RateLimitRPM
            /\ rateLimitStatus[p].requestsRemaining = RateLimitRPM - requestCount[p]

\* The services of the selection's input that are not exhausted.
Usable(in) == {in.services[i] : i \in 1..Len(in.services)} \cap
              {p \in Providers : in.remaining[p] > 0}

\* C9: the selector only ever selects a configured backend whose
\* requestsRemaining is positive in the snapshot, and it fails exactly when
\* no configured backend has requestsRemaining > 0.
C9_NeverSelectsExhausted ==
    selOut.done =>
        /\ ~selOut.threw => selOut.provider \in Usable(selIn)
        /\ selOut.threw <=> Usable(selIn) = {}

C9_Witness ==
    /\ selOut.done /\ ~selOut.threw
    /\ selIn.services = <<"claude", "gemini", "openai">>
    /\ selIn.preferredProvider = "claude"
    /\ selIn.remaining["claude"] = 0 /\ selIn.remaining["gemini"] = -1
    /\ selOut.provider = "openai"

\* C10: a preferred backend that is configured and not exhausted is the one
\* selected, whatever the cost flag, the complexity and the order.
C10_PreferredWins ==
    (selOut.done /\ selIn.preferredProvider \in Usable(selIn)) =>
        ~selOut.threw /\ selOut.provider = selIn.preferredProvider

C10_Witness ==
    /\ selOut.done /\ selOut.provider = "gemini"
    /\ selIn.preferredProvider = "gemini"
    /\ selIn.services = <<"openai", "claude", "gemini">>
    /\ selIn.optimizeForCost /\ selIn.complexity = "complex"
    /\ selIn.cost["gemini"] > selIn.cost["openai"]
    /\ \A p \in Providers : selIn.remaining[p] > 0

\* The stages of the pipeline and the names of their trace entries, in order.
StageNames == <<"context", "select", "prompt", "call", "enhance", "validate", "preview">>
StepNames ==
    <<"Context Processing", "AI Model Selection", "Prompt Engineering",
      "Workflow Generation", "Workflow Enhancement", "Workflow Validation",
      "Preview Generation">>

\* The adapter call of invocation i returned a response its parser degraded.
BackendOkUnparsed(i) ==
    /\ inv[i].pc = "done"
    /\ call[i].pc = "returned"
    /\ call[i].response.explanation.kind = "fallback"

\* C1: whenever the backend call succeeds but its response text cannot be
\* parsed, generateWorkflow still runs enhancement, validation and preview and
\* returns success true with a workflow of exactly one manual-trigger node.
C1_DegradeNotFail ==
    \A i \in Callers :
        BackendOkUnparsed(i) =>
            /\ inv[i].ran = StageNames
            /\ inv[i].result.returned
            /\ inv[i].result.success
            /\ inv[i].result.validation.present
            /\ inv[i].result.preview.present
            /\ inv[i].result.workflow.nodes.kind = "array"
            /\ Len(inv[i].result.workflow.nodes.items) = 1
            /\ inv[i].result.workflow.nodes.items[1].type = ManualTriggerType

C1_Witness ==
    \E i \in Callers : BackendOkUnparsed(i) /\ inv[i].result.success

\* C3: generateWorkflow never rejects: an invocation that has ended, and
\* every invocation in which a stage failed, has returned a result with a
\* boolean success and a steps trace.
C3_AlwaysStructuredResult ==
    \A i \in Callers :
        /\ ~inv[i].result.rejected
        /\ (inv[i].pc = "done" \/ inv[i].failedAt # 0) =>
               /\ inv[i].result.returned
               /\ inv[i].result.success \in BOOLEAN
               /\ inv[i].result.success = (inv[i].failedAt = 0)
               /\ inv[i].result.steps \in 1..Len(stepArrays)

\* Invocations that failed in the storage-reading stage, at selection, at the
\* backend call and in validation have all returned.
C3_Witness ==
    /\ \E i \in Callers : inv[i].failedAt = 4 /\ inv[i].result.returned
    /\ \E i \in Callers : inv[i].failedAt \in {1, 2, 5, 6, 7} /\ inv[i].result.returned

\* The trace of an invocation that failed at stage k: the success entries of
\* its stages 1..k-1, then the failure detail.
FailureTrace(i, k) ==
    [n \in 1..k |->
        IF n < k
        THEN [step |-> n, name |-> StepNames[n], status |-> "success", owner |-> i]
        ELSE [step |-> k, name |-> "Error Handling", status |-> "error", owner |-> i]]

\* C4: if stage k fails, no later stage runs for that invocation (no network
\* call when stage 1 or 2 fails), and the result has success false, no
\* workflow, validation or preview, and a trace of the success entries of
\* stages 1..k-1 followed by the failure detail.
C4_AbortOnFailure ==
    \A i \in Callers :
        inv[i].failedAt # 0 =>
            LET k == inv[i].failedAt
            IN  /\ inv[i].ran = SubSeq(StageNames, 1, k)
                /\ (k \in {1, 2} => ~call[i].fetched)
                /\ inv[i].result.returned
                /\ ~inv[i].result.success
                /\ inv[i].result.workflow = WorkflowAbsent
                /\ ~inv[i].result.validation.present
                /\ ~inv[i].result.preview.present
                /\ stepArrays[inv[i].result.steps] = FailureTrace(i, k)

\* Every configured backend reports zero remaining requests.
AllExhausted ==
    \A n \in 1..Len(aiServices) : getRateLimitStatus(aiServices[n]).requestsRemaining = 0

\* C8: when every configured backend reports zero remaining requests, the
\* invocation makes no backend call and returns success false with a
\* configuration or rate-limit error category and no workflow.
C8_AllExhaustedFails ==
    [][\A i \in Callers :
          (inv[i].pc = "select" /\ AllExhausted /\ inv'[i].pc # "select") =>
              /\ call'[i] = call[i]
              /\ ~call'[i].fetched
              /\ inv'[i].result.returned
              /\ ~inv'[i].result.success
              /\ inv'[i].result.workflow = WorkflowAbsent
              /\ inv'[i].result.errorType \in {"CONFIGURATION_ERROR", "RATE_LIMIT_ERROR"}]_vars

\* ---- validation of what the parser hands on
\* The chain was given a text that is one JSON object with workflow and
\* explanation, and ran.
ChainRanOn(nodesKind) ==
    /\ stageIn.stage = "chain"
    /\ stageOut.done
    /\ Len(stageIn.text) = 1
    /\ stageIn.text[1].seg = "obj"
    /\ stageIn.text[1].val.kind = "object"
    /\ stageIn.text[1].val.explanation = "text"
    /\ stageIn.text[1].val.workflow.kind = "object"
    /\ stageIn.text[1].val.workflow.nodes.kind = nodesKind
HasError(validation, type) ==
    \E k \in 1..Len(validation.errors) : validation.errors[k].type = type
InvalidByStructure(validation) ==
    /\ ~validation.error.thrown
    /\ validation.value.present
    /\ ~validation.value.isValid
    /\ HasError(validation.value, "structure")

\* C11 as stated: a decoded response without a nodes field, or with an empty
\* nodes array, is returned by the validator as invalid with a structure
\* error.
C11_AsStated ==
    (ChainRanOn("absent")
        \/ (ChainRanOn("array") /\ stageIn.text[1].val.workflow.nodes.items = <<>>))
    => InvalidByStructure(stageOut.validation)

\* C11: a decoded response with an empty nodes array is returned by the
\* validator as invalid with a structure error; one without a nodes field
\* is degraded by the parser and its placeholder validates without error.
C11_StructureError ==
    /\ (ChainRanOn("array") /\ stageIn.text[1].val.workflow.nodes.items = <<>>)
       => InvalidByStructure(stageOut.validation)
    /\ ChainRanOn("absent")
       => /\ stageOut.response.workflow.metadata.parseError
          /\ ~stageOut.validation.error.thrown
          /\ stageOut.validation.value.isValid
          /\ stageOut.validation.value.errors = <<>>
C11_Witness ==
    /\ ChainRanOn("array")
    /\ stageIn.text[1].val.workflow.nodes.items = <<>>
    /\ ~stageOut.validation.value.isValid

\* ---- the validator on its own
ValidatorReturned ==
    /\ stageIn.stage = "validate"
    /\ stageOut.done
    /\ ~stageOut.validation.error.thrown
\* The context with the available node types taken out, which removes every
\* availability warning.
WithoutAvailableNodes(context) == [context EXCEPT !.availableNodes = NodesArray(<<>>)]

\* C12: a returned validation is valid exactly if its errors hold no
\* structure, node or connection error, and validity is the same with the
\* availability warnings removed.
C12_ValidIffNoErrors ==
    ValidatorReturned =>
        /\ stageOut.validation.value.isValid
               <=> ~\E t \in {"structure", "node", "connection"} :
                        HasError(stageOut.validation.value, t)
        /\ stageOut.validation.value.isValid
               = validateWorkflow(stageIn.workflow,
                                  WithoutAvailableNodes(stageIn.context)).value.isValid
C12_Witness ==
    /\ ValidatorReturned
    /\ stageOut.validation.value.isValid
    /\ stageOut.validation.value.warnings # <<>>
    /\ stageOut.validation.value.suggestions # <<>>

\* Some connection of the workflow names a target that is neither the id nor
\* the name of a node in its node list.
DanglingTarget(workflow) ==
    /\ workflow.nodes.kind = "array"
    /\ \E k \in 1..Len(workflow.connections.edges) :
          \A i \in 1..Len(workflow.nodes.items) :
              /\ workflow.nodes.items[i].id # workflow.connections.edges[k].target
              /\ workflow.nodes.items[i].name # workflow.connections.edges[k].target

\* C13: a workflow with a connection to a node that is not in its node list
\* is returned as invalid with a connection error, by the pipeline's
\* validator and by the importer's.
C13_ConnectionPass ==
    (stageIn.stage \in {"validate", "import"} /\ stageOut.done
        /\ DanglingTarget(stageIn.workflow))
    => /\ ~stageOut.validation.error.thrown
       /\ ~stageOut.validation.value.isValid
       /\ HasError(stageOut.validation.value, "connection")

\* The compatibility table and the availability warnings of a validation:
\* one entry per node, in order, compatible exactly if the node's type is in
\* the available set, and one high-impact best-practice warning for each
\* node that is not; neither when the set is empty.
CompatibilityAsSpecified(validation, nodes, available) ==
    LET IsHigh(w) == w.impact = "high"
        Unavailable(node) == \A k \in 1..Len(available) : available[k] # node.type
        high == SelectSeq(validation.warnings, IsHigh)
        missing == SelectSeq(nodes, Unavailable)
    IN  IF Len(available) = 0
        THEN validation.nodeCompatibility = <<>> /\ high = <<>>
        ELSE /\ Len(validation.nodeCompatibility) = Len(nodes)
             /\ \A i \in 1..Len(nodes) :
                    /\ validation.nodeCompatibility[i].nodeType = nodes[i].type
                    /\ validation.nodeCompatibility[i].isCompatible = ~Unavailable(nodes[i])
             /\ Len(high) = Len(missing)
             /\ \A k \in 1..Len(high) :
                    high[k].type = "best-practice" /\ high[k].nodeId = missing[k].id

\* C14: for every node list the validator returns the compatibility table
\* and the availability warnings as specified.
C14_Compatibility ==
    (stageIn.stage = "validate" /\ stageOut.done /\ stageIn.workflow.nodes.kind = "array")
    => /\ ~stageOut.validation.error.thrown
       /\ CompatibilityAsSpecified(stageOut.validation.value, stageIn.workflow.nodes.items,
                                   stageIn.context.availableNodes.items)

\* The table and the warnings are as specified whenever the validator returns.
CompatibilityWhenReturned ==
    ValidatorReturned
    => CompatibilityAsSpecified(stageOut.validation.value, stageIn.workflow.nodes.items,
                                stageIn.context.availableNodes.items)

\* ---- the enhancer on its own
EnhancedTwice ==
    /\ stageIn.stage = "enhance"
    /\ Len(stageOut.graphs) = 2
    /\ ~stageOut.graphs[2].error.thrown

\* C15: the enhancer applied to its own output returns the graph it was
\* given: the same nodes with their positions and notes, the same
\* connections and the same metadata.
C15_Idempotent ==
    EnhancedTwice
    => /\ stageOut.graphs[2].value.nodes = stageOut.graphs[1].value.nodes
       /\ stageOut.graphs[2].value.connections = stageOut.graphs[1].value.connections
       /\ stageOut.graphs[2].value.metadata = stageOut.graphs[1].value.metadata

\* The second application leaves nodes, positions, notes and connections as
\* they are, and the metadata's backend and confidence.
EnhancerKeepsGraph ==
    EnhancedTwice
    => /\ stageOut.graphs[2].value.nodes = stageOut.graphs[1].value.nodes
       /\ stageOut.graphs[2].value.connections = stageOut.graphs[1].value.connections
       /\ stageOut.graphs[2].value.metadata.aiModel
              = stageOut.graphs[1].value.metadata.aiModel
       /\ stageOut.graphs[2].value.metadata.confidence
              = stageOut.graphs[1].value.metadata.confidence

\* ---- concurrent invocations
\* C16: the trace an invocation returns holds the entries that invocation
\* appended and no others, numbered in order, and none of its entries is in
\* another array.
C16_TraceIsolation ==
    \A i \in Callers :
        inv[i].result.returned =>
            /\ \A n \in 1..Len(stepArrays[inv[i].result.steps]) :
                   /\ stepArrays[inv[i].result.steps][n].owner = i
                   /\ stepArrays[inv[i].result.steps][n].step = n
            /\ \A a \in 1..Len(stepArrays) :
                   a # inv[i].result.steps
                   => \A n \in 1..Len(stepArrays[a]) : stepArrays[a][n].owner # i

\* ---- retries
\* A validation error or a malformed-request error (HTTP 400 or 401).
NeverRetried(error) ==
    (error.custom /\ error.type = "VALIDATION_ERROR") \/ error.status \in {400, 401}

\* C17: an operation that failed with a validation error or a
\* malformed-request error is not waited for and not invoked again: the error
\* is rethrown at once.
C17_OnlyRetryable ==
    NeverRetried(retry.raised) => retry.pc = "threw"

\* Called directly, executeWithRetry rethrows those errors at once.
DirectOnlyRetryable ==
    (~retry.wrapped /\ NeverRetried(retry.raised)) => retry.pc = "threw"

\* C18: the operation is invoked at most maxRetries + 1 times, no more after
\* its first success, and when every attempt failed with a retryable error
\* the error of the last attempt is rethrown.
C18_BoundedRetry ==
    [][/\ retry'.calls <= retry'.maxRetries + 1
       /\ retry.pc \in {"returned", "threw"} => retry' = retry
       /\ retry'.pc = "returned" => retry'.calls = retry.calls
       /\ retry'.pc = "threw" => retry'.thrown = retry'.lastError
       /\ (retry'.pc = "threw" /\ shouldRetry(retry'.lastError))
          => retry'.calls = retry'.maxRetries + 1]_vars
C18_Witness ==
    /\ retry.pc = "threw"
    /\ retry.maxRetries = MaxRetries
    /\ retry.calls = MaxRetries + 1
    /\ shouldRetry(retry.thrown)

\* C19: without the jitter, the delay before retry n is baseDelay * 2^(n-1),
\* and no delay is smaller than the one before it.
C19_BackoffMonotone ==
    /\ \A n \in 1..Len(retry.delays) : retry.delays[n] = retry.baseDelay * (2 ^ (n - 1))
    /\ \A n \in 1..(Len(retry.delays) - 1) : retry.delays[n + 1] >= retry.delays[n]
C19_Witness ==
    /\ Len(retry.delays) = MaxRetries
    /\ retry.delays[Len(retry.delays)] > retry.delays[1]

\* ---- termination of a backend call
\* C20: every backend call that is waiting for the provider ends, with a
\* response or a failure, even if the provider never answers.
C20_CallsEnd ==
    \A c \in Callers : (call[c].pc = "fetching") ~> (call[c].pc \in {"returned", "threw"})

\* ---- the rate-limit window
\* C21: a selection made after the reset time of a backend whose remaining
\* requests had reached zero finds that backend available.
C21_LazyReset ==
    [][\A n \in 1..Len(aiServices) :
          (/\ selOut'.count = selOut.count + 1
           /\ rateLimitStatus[aiServices[n]].requestsRemaining = 0
           /\ now > rateLimitStatus[aiServices[n]].resetTime)
          => \E k \in 1..Len(selOut'.available) : selOut'.available[k] = aiServices[n]]_vars

\* Called again after its reset time, an adapter's own check restores the
\* limits and sets the reset time one window ahead.
AdapterResetsOnCall ==
    [][\A c \in Callers :
          (/\ call'[c].pc = "fetching" /\ call[c].pc # "fetching"
           /\ now > rateLimitStatus[call'[c].provider].resetTime)
          => rateLimitStatus'[call'[c].provider] =
                 [requestsRemaining |-> RateLimitRPM, tokensRemaining |-> RateLimitTPM,
                  resetTime |-> now + WindowTicks]]_vars

\* ---- categories of adapter failures
\* The codes that name a category: rate-limited, network, backend service,
\* invalid credential.
CategoryCodes == {"RATE_LIMITED", "NETWORK_ERROR", "SERVICE_ERROR", "INVALID_API_KEY"}

\* C22: every failure an adapter's generateWorkflow throws carries a category
\* code, and a rate-limited one its retry-after.
C22_CategorizedFailure ==
    \A c \in Callers :
        call[c].pc = "threw" =>
            /\ call[c].error.code \in CategoryCodes
            /\ call[c].error.code = "RATE_LIMITED" => call[c].error.retryAfter > 0

\* A failure that stems from an HTTP response carries some code.
StatusFailuresHaveCode ==
    \A c \in Callers :
        (call[c].pc = "threw" /\ call[c].error.message \in
            {"Invalid API key", "Rate limit exceeded (429)",
             "AI service is temporarily unavailable", "HTTP status"})
        => call[c].error.code # ""

\* ---- failure results
\* C23: every failure result generateWorkflow returns has a recoverability
\* flag.
C23_RecoverabilityFlag ==
    \A i \in Callers :
        (inv[i].result.returned /\ ~inv[i].result.success)
        => \E k \in inv[i].result.keys : k \in {"recoverable", "retryable", "canRetry"}

\* ---- the trace of a successful invocation
\* The trace of a successful invocation i: one success entry per stage, in
\* the order of the stages, numbered 1..7.
SuccessTrace(i) ==
    [n \in 1..Len(StepNames) |->
        [step |-> n, name |-> StepNames[n], status |-> "success", owner |-> i]]

\* C24: a successful invocation ran the seven stages in their order and
\* returns a trace of exactly one entry per stage in that order, numbered
\* 1..7.
C24_StageOrder ==
    \A i \in Callers :
        (inv[i].result.returned /\ inv[i].result.success)
        => /\ inv[i].ran = StageNames
           /\ stepArrays[inv[i].result.steps] = SuccessTrace(i)

\* The same while no other invocation has started, and no step array ever
\* loses or changes an entry.
SoloStageOrder ==
    \A i \in Callers :
        (inv[i].result.returned /\ inv[i].result.success
            /\ \A j \in Callers \ {i} : inv[j].pc = "idle")
        => /\ inv[i].ran = StageNames
           /\ stepArrays[inv[i].result.steps] = SuccessTrace(i)
ArraysAppendOnly ==
    [][\A a \in 1..Len(stepArrays) :
          /\ Len(stepArrays'[a]) >= Len(stepArrays[a])
          /\ SubSeq(stepArrays'[a], 1, Len(stepArrays[a])) = stepArrays[a]]_vars

\* ---- validation findings as data
ValidatorRanOnArray ==
    /\ stageIn.stage = "validate"
    /\ stageOut.done
    /\ stageIn.workflow.nodes.kind = "array"
\* The findings the validator owes for the nodes that miss a required
\* property: no exception, isValid false, a node error for each such node.
FindingsReported(nodes, validation) ==
    /\ ~validation.error.thrown
    /\ ~validation.value.isValid
    /\ \A i \in 1..Len(nodes) :
           MissingRequired(nodes[i])
           => \E k \in 1..Len(validation.value.errors) :
                  /\ validation.value.errors[k].type = "node"
                  /\ validation.value.errors[k].nodeId = nodes[i].id

\* C25: for every node that misses its id, its name or its type the
\* validator returns a result with a node error and isValid false; it never
\* throws.
C25_FindingsAreData ==
    (ValidatorRanOnArray
        /\ \E i \in 1..Len(stageIn.workflow.nodes.items) :
               MissingRequired(stageIn.workflow.nodes.items[i]))
    => FindingsReported(stageIn.workflow.nodes.items, stageOut.validation)

\* The same where every node has a type: only a missing type makes the
\* validator throw.
FindingsWhenTyped ==
    (ValidatorRanOnArray
        /\ \E i \in 1..Len(stageIn.workflow.nodes.items) :
               MissingRequired(stageIn.workflow.nodes.items[i])
        /\ \A j \in 1..Len(stageIn.workflow.nodes.items) :
               stageIn.workflow.nodes.items[j].type # Undefined)
    => FindingsReported(stageIn.workflow.nodes.items, stageOut.validation)

\* ---- the analysis of a description
AnalyzedSlackIssue ==
    /\ stageIn.stage = "analyze"
    /\ stageOut.done
    /\ stageIn.description = DescSlackIssue

\* C26 as stated: the description "Send a Slack message when a new GitHub
\* issue is created" has hasIntegrations true and the estimate "simple".
C26_AsStated ==
    AnalyzedSlackIssue
    => /\ stageOut.analysis.hasIntegrations
       /\ stageOut.analysis.estimatedComplexity = "simple"

\* C26: the description "Send a Slack message when a new GitHub issue is
\* created" has 11 words, hasIntegrations true, no control-flow keyword, and
\* the estimate "medium".
C26_SlackIssueMedium ==
    AnalyzedSlackIssue
    => /\ stageOut.analysis.wordCount = 11
       /\ stageOut.analysis.hasIntegrations
       /\ ~stageOut.analysis.hasLogic
       /\ stageOut.analysis.estimatedComplexity = "medium"
C26_Witness ==
    /\ AnalyzedSlackIssue
    /\ stageOut.analysis.hasIntegrations
    /\ stageOut.analysis.wordCount <= MediumWords

\* The three estimates all occur, and a description is "simple" only without
\* any integration or control-flow keyword.
SimpleOnlyWithoutKeywords ==
    (stageIn.stage = "analyze" /\ stageOut.done
        /\ stageOut.analysis.estimatedComplexity = "simple")
    => /\ ~stageOut.analysis.hasIntegrations
       /\ ~stageOut.analysis.hasLogic
       /\ stageOut.analysis.wordCount <= MediumWords

\* ---- the selector's fallback
\* The preference the selector looks for: the configured one, claude if unset.
EffectivePreference(in) ==
    IF in.preferredProvider = "" THEN "claude" ELSE in.preferredProvider
\* The configured backends with requests remaining, in the configured order.
UsableInOrder(in) == SelectSeq(in.services, LAMBDA p : in.remaining[p] > 0)
FellBack ==
    /\ selOut.done
    /\ Usable(selIn) # {}
    /\ EffectivePreference(selIn) \notin Usable(selIn)
\* The first element of the sequence that satisfies the test, "" if none.
FirstWhere(seq, Test(_)) ==
    LET hits == {i \in 1..Len(seq) : Test(seq[i])}
    IN  IF hits = {} THEN "" ELSE seq[Min(hits)]

\* C27: when the preferred backend is unavailable, cost optimization picks
\* the first available backend of lowest cost; otherwise a complex
\* description picks the first available of claude and openai if there is
\* one; otherwise the first available backend in the configured order is
\* picked.
C27_Fallback ==
    FellBack =>
        LET available == UsableInOrder(selIn)
            IsCheapest(p) == \A q \in Usable(selIn) : selIn.cost[p] <= selIn.cost[q]
            IsStrong(p) == p \in {"claude", "openai"}
        IN  /\ ~selOut.threw
            /\ selOut.selectionReason = "auto_selected"
            /\ selOut.provider =
                   IF selIn.optimizeForCost THEN FirstWhere(available, IsCheapest)
                   ELSE IF selIn.complexity = "complex" /\ FirstWhere(available, IsStrong) # ""
                        THEN FirstWhere(available, IsStrong)
                   ELSE available[1]
C27_Witness ==
    /\ FellBack
    /\ selIn.optimizeForCost
    /\ selIn.services = <<"gemini", "claude", "openai">>
    /\ selIn.preferredProvider = "claude"
    /\ selIn.remaining = [p \in Providers |-> IF p = "claude" THEN 0 ELSE 1]
    /\ selIn.cost["gemini"] = selIn.cost["openai"]
    /\ selOut.provider = "gemini"
\* States of the other two arms.
FallbackStrong ==
    /\ FellBack /\ ~selIn.optimizeForCost /\ selIn.complexity = "complex"
    /\ selIn.services = <<"gemini", "openai", "claude">>
    /\ selOut.provider = "openai"
FallbackFirst ==
    /\ FellBack /\ ~selIn.optimizeForCost /\ selIn.complexity = "simple"
    /\ selIn.services = <<"gemini", "openai">>
    /\ selOut.provider = "gemini"

\* ---- the adapters' parsers side by side
AllParsed == \A p \in Adapters : parseOut[p].done
\* The segment is a complete response: it decodes to an object with a
\* workflow that has nodes, and an explanation.
CompleteResponse(segment) == ~NoCompleteResponse(<<segment>>)
\* The positions of the brace-delimited chunks of the text.
ObjectsOf(text) == {i \in 1..Len(text) : text[i].seg = "obj"}
\* The text holds one complete response and no other braces.
OneCompleteResponse(text) ==
    /\ Cardinality(ObjectsOf(text)) = 1
    /\ \A i \in ObjectsOf(text) : CompleteResponse(text[i])

\* C28: for the same raw text every adapter's parser gives the same outcome
\* (both degrade, or both accept the same nodes and connections), and a text
\* that holds one complete response, bare, fenced or within prose, is
\* parsed to that response's workflow by every adapter.
C28_SameRecovery ==
    AllParsed =>
        /\ \A p, q \in Adapters :
               /\ IsDegraded(parseOut[p].out, rawText) <=> IsDegraded(parseOut[q].out, rawText)
               /\ parseOut[p].out.workflow.nodes = parseOut[q].out.workflow.nodes
        /\ OneCompleteResponse(rawText) =>
               \A p \in Adapters, i \in ObjectsOf(rawText) :
                   /\ IsAccepted(parseOut[p].out)
                   /\ ~IsDegraded(parseOut[p].out, rawText)
                   /\ parseOut[p].out.workflow.nodes = rawText[i].val.workflow.nodes

\* On a text that is one JSON value and nothing else the adapters agree.
BareJsonAgrees ==
    (AllParsed /\ Len(rawText) = 1) =>
        \A p, q \in Adapters :
            /\ IsDegraded(parseOut[p].out, rawText) <=> IsDegraded(parseOut[q].out, rawText)
            /\ parseOut[p].out.workflow.nodes = parseOut[q].out.workflow.nodes
\* The Claude adapter accepts one complete response that is bare, fenced or
\* within prose unless a fence pair comes before it or encloses more.
ClaudeRecoversEmbedded ==
    (AllParsed /\ OneCompleteResponse(rawText)
        /\ \A i \in 1..Len(rawText) : rawText[i].seg \in {"P", "obj"})
    => IsAccepted(parseOut["claude"].out) /\ ~IsDegraded(parseOut["claude"].out, rawText)

\* ---- the degraded status in the returned workflow
\* Invocation i returned a workflow built from a response its adapter's
\* parser degraded.
ReturnedDegraded(i) ==
    /\ inv[i].result.returned
    /\ inv[i].result.success
    /\ call[i].pc = "returned"
    /\ call[i].response.workflow.metadata.parseError
    /\ call[i].response.explanation.kind = "fallback"

\* C29: whenever the parser degraded the response, the workflow that
\* generateWorkflow returns has metadata.parseError true and
\* metadata.confidence 0.1.
C29_DegradedSurvives ==
    \A i \in Callers :
        ReturnedDegraded(i)
        => /\ inv[i].result.workflow.metadata.parseError
           /\ inv[i].result.workflow.metadata.confidence = DegradedConfidence

\* The confidence alone does survive.
DegradedConfidenceSurvives ==
    \A i \in Callers :
        ReturnedDegraded(i)
        => inv[i].result.workflow.metadata.confidence = DegradedConfidence

\* ---- the enhancer's layout
EnhancedOnce ==
    /\ stageIn.stage = "enhance"
    /\ Len(stageOut.graphs) >= 1
    /\ ~stageOut.graphs[1].error.thrown
\* The node carries a layout position: a pair of coordinates.
HasPosition(node) == Len(node.position) = 2

\* C30: every node that already carries a position keeps exactly that
\* position after enhancement, and the ids, the count and the order of the
\* nodes are unchanged.
C30_PositionsKept ==
    EnhancedOnce =>
        LET before == stageIn.rawWorkflow.workflow.nodes.items
            after == stageOut.graphs[1].value.nodes.items
        IN  /\ Len(after) = Len(before)
            /\ \A i \in 1..Len(before) :
                   /\ after[i].id = before[i].id
                   /\ HasPosition(before[i]) => after[i].position = before[i].position

\* Ids, count and order are kept, and every node ends up on the grid.
EnhancerKeepsIdentity ==
    EnhancedOnce =>
        LET before == stageIn.rawWorkflow.workflow.nodes.items
            after == stageOut.graphs[1].value.nodes.items
        IN  /\ Len(after) = Len(before)
            /\ \A i \in 1..Len(before) :
                   /\ after[i].id = before[i].id
                   /\ after[i].name = before[i].name
                   /\ after[i].type = before[i].type
                   /\ HasPosition(after[i])

\* ---- the grid
\* The grid position of the node at the 0-based index.
GridPosition(index) == <<240 + 200 * (index \div 5), 300 + 200 * (index % 5)>>

\* C31: the node at 0-based list index i that the enhancer positions gets
\* (240 + 200 * floor(i / 5), 300 + 200 * (i mod 5)), and no two nodes get
\* the same position.
C31_GridLayout ==
    EnhancedOnce =>
        LET after == stageOut.graphs[1].value.nodes.items
        IN  /\ \A i \in 1..Len(after) : after[i].position = GridPosition(i - 1)
            /\ \A i, j \in 1..Len(after) :
                   i # j => after[i].position # after[j].position
C31_Witness ==
    /\ EnhancedOnce
    /\ Len(stageOut.graphs[1].value.nodes.items) > 10
    /\ stageOut.graphs[1].value.nodes.items[5].position = <<240, 1100>>
    /\ stageOut.graphs[1].value.nodes.items[6].position = <<440, 300>>
    /\ stageOut.graphs[1].value.nodes.items[11].position = <<640, 300>>

\* ---- the missing-trigger warning
\* The missing-trigger warning is among the warnings.
HasTriggerWarning(validation) ==
    \E k \in 1..Len(validation.warnings) :
        /\ validation.warnings[k].type = "best-practice"
        /\ validation.warnings[k].impact = "medium"
\* The type contains a word of the trigger vocabulary
\* trigger/webhook/manual/schedule.
InTriggerVocabulary(type) ==
    \/ Includes(type, KwTrigger) \/ Includes(type, KwWebhook)
    \/ Includes(type, KwManual) \/ Includes(type, KwSchedule)

\* C32: the validator gives the medium-impact best-practice warning exactly
\* if no node's type matches trigger/webhook/manual/schedule; a workflow
\* with a schedule-type entry node gets none.
C32_TriggerWarning ==
    ValidatorReturned =>
        (HasTriggerWarning(stageOut.validation.value)
            <=> \A i \in 1..Len(stageIn.workflow.nodes.items) :
                    ~InTriggerVocabulary(stageIn.workflow.nodes.items[i].type))

\* With the vocabulary of the code, trigger/webhook/manual, it is so.
TriggerWarningAsCoded ==
    ValidatorReturned =>
        (HasTriggerWarning(stageOut.validation.value)
            <=> \A i \in 1..Len(stageIn.workflow.nodes.items) :
                    ~IsTriggerType(stageIn.workflow.nodes.items[i].type))

\* ---- large workflows
PreviewReturned ==
    /\ stageIn.stage = "preview"
    /\ stageOut.done
    /\ ~stageOut.preview.error.thrown
HasSuggestion(validation, type) ==
    \E k \in 1..Len(validation.suggestions) : validation.suggestions[k] = type

\* C33: a validation result holds the optimization suggestion exactly for a
\* workflow of more than 20 nodes, and the preview of such a workflow, in
\* particular of 25 nodes across 5 categories, has complexity "complex".
C33_LargeWorkflow ==
    /\ ValidatorReturned =>
           (HasSuggestion(stageOut.validation.value, "optimization")
               <=> Len(stageIn.workflow.nodes.items) > 20)
    /\ (PreviewReturned /\ Len(stageIn.workflow.nodes.items) > 20)
           => stageOut.preview.value.complexity = "complex"
C33_Witness ==
    /\ ValidatorReturned
    /\ Len(stageIn.workflow.nodes.items) = 21
    /\ stageOut.validation.value.suggestions = <<"optimization">>
\* States of the other cases: twenty nodes, and the preview of 25 nodes
\* across 5 categories.
TwentyNodesNoSuggestion ==
    /\ ValidatorReturned
    /\ Len(stageIn.workflow.nodes.items) = 20
    /\ stageOut.validation.value.suggestions = <<>>
PreviewOfTwentyFive ==
    /\ PreviewReturned
    /\ stageIn.workflow.nodes.items = MixedNodes(25, FiveCategories)
    /\ Cardinality(stageOut.preview.value.nodeTypes) = 5
    /\ stageOut.preview.value.complexity = "complex"

\* ---- the complexity estimate
Analyzed == stageIn.stage = "analyze" /\ stageOut.done

\* C34: the estimate is "complex" if the word count is above 50 or both the
\* integration and the control-flow flag are set, else "medium" if the word
\* count is above 20 or either flag is set, else "simple"; the scheduling
\* flag has no part in it.
C34_ComplexityRule ==
    Analyzed =>
        LET a == stageOut.analysis
        IN  /\ a.wordCount = Len(stageIn.description)
            /\ a.estimatedComplexity =
                   IF a.wordCount > 50 \/ (a.hasIntegrations /\ a.hasLogic) THEN "complex"
                   ELSE IF a.wordCount > 20 \/ a.hasIntegrations \/ a.hasLogic THEN "medium"
                   ELSE "simple"
C34_Witness ==
    /\ Analyzed
    /\ stageOut.analysis.hasScheduling
    /\ ~stageOut.analysis.hasIntegrations
    /\ ~stageOut.analysis.hasLogic
    /\ stageOut.analysis.estimatedComplexity = "simple"

\* ---- the preview's complexity class
\* The categories of the nodes of the graph in the preview stage.
CategoriesOfGraph ==
    {getNodeCategory(stageIn.workflow.nodes.items[i].type) :
        i \in 1..Len(stageIn.workflow.nodes.items)}

\* C35: the preview's class is "complex" if the graph has more than 10
\* nodes or more than 4 distinct categories, else "medium" if it has more
\* than 5 nodes or more than 2 categories, else "simple", whatever the
\* estimate of the description was.
C35_PreviewClass ==
    PreviewReturned =>
        LET n == Len(stageIn.workflow.nodes.items)
            k == Cardinality(CategoriesOfGraph)
        IN  /\ stageOut.preview.value.nodeCount = n
            /\ stageOut.preview.value.complexity =
                   IF n > 10 \/ k > 4 THEN "complex"
                   ELSE IF n > 5 \/ k > 2 THEN "medium"
                   ELSE "simple"
C35_Witness ==
    /\ PreviewReturned
    /\ stageIn.estimate = "simple"
    /\ Len(stageIn.workflow.nodes.items) = 5
    /\ Cardinality(CategoriesOfGraph) = 5
    /\ stageOut.preview.value.complexity = "complex"
\* States of the other arms.
PreviewMediumByCount ==
    /\ PreviewReturned /\ stageIn.estimate = "complex"
    /\ Len(stageIn.workflow.nodes.items) = 6 /\ Cardinality(CategoriesOfGraph) = 1
    /\ stageOut.preview.value.complexity = "medium"
PreviewMediumByCategories ==
    /\ PreviewReturned
    /\ Len(stageIn.workflow.nodes.items) = 3 /\ Cardinality(CategoriesOfGraph) = 3
    /\ stageOut.preview.value.complexity = "medium"
PreviewSimple ==
    /\ PreviewReturned /\ stageIn.estimate = "complex"
    /\ Len(stageIn.workflow.nodes.items) = 5
    /\ stageOut.preview.value.complexity = "simple"

\* ---- the preview's trigger classification
\* The classification of a node type of the trigger vocabulary.
TriggerClassOf(type) ==
    IF Includes(type, KwWebhook) THEN {"webhook"}
    ELSE IF Includes(type, KwCron) \/ Includes(type, KwSchedule) THEN {"schedule", "scheduled"}
    ELSE IF Includes(type, KwTrigger) THEN {"event"}
    ELSE {"manual"}
\* The index of the first node with the property, 0 if there is none.
FirstNode(nodes, Test(_)) ==
    LET hits == {i \in 1..Len(nodes) : Test(nodes[i].type)}
    IN  IF hits = {} THEN 0 ELSE Min(hits)

\* C36: the preview's trigger classification is that of the first node
\* whose type matches trigger/webhook/manual/schedule: webhook, scheduled
\* for cron or schedule, event for another trigger, manual for a manual
\* type; it is manual when no node matches.
C36_TriggerClass ==
    PreviewReturned =>
        LET nodes == stageIn.workflow.nodes.items
            first == FirstNode(nodes, InTriggerVocabulary)
        IN  stageOut.preview.value.triggerType
                \in IF first = 0 THEN {"manual"} ELSE TriggerClassOf(nodes[first].type)

\* With the vocabulary of the code, trigger/webhook/manual, it is so.
TriggerClassAsCoded ==
    PreviewReturned =>
        LET nodes == stageIn.workflow.nodes.items
            first == FirstNode(nodes, IsTriggerType)
        IN  stageOut.preview.value.triggerType
                \in IF first = 0 THEN {"manual"} ELSE TriggerClassOf(nodes[first].type)

\* ---- the node categories
NodeCategories ==
    {"trigger", "http", "database", "communication", "integration", "logic", "transform",
     "utility"}
\* The keywords and the category each stands for.
CategoryKeywords ==
    {<<KwTrigger, "trigger">>, <<KwHttp, "http">>, <<KwWebhook, "http">>,
     <<KwDatabase, "database">>, <<KwSql, "database">>, <<KwEmail, "communication">>,
     <<KwSlack, "communication">>, <<KwGoogle, "integration">>,
     <<KwMicrosoft, "integration">>, <<KwIf, "logic">>, <<KwSwitch, "logic">>,
     <<KwSet, "transform">>, <<KwCode, "transform">>}
\* The categories of the longest keywords the type contains; utility if it
\* contains none.
LongestMatchCategories(type) ==
    LET matches == {k \in CategoryKeywords : Includes(type, k[1])}
    IN  IF matches = {} THEN {"utility"}
        ELSE {k[2] : k \in {m \in matches : \A o \in matches : Len(m[1]) >= Len(o[1])}}
\* The categories the preview's histogram has entries for.
HistogramKeys == {e[1] : e \in stageOut.preview.value.nodeTypes}
RECURSIVE SumOfCounts(_)
SumOfCounts(histogram) ==
    IF histogram = {} THEN 0
    ELSE LET e == CHOOSE x \in histogram : TRUE
         IN  e[2] + SumOfCounts(histogram \ {e})

\* C37: every node is counted under exactly one of the eight categories,
\* that of the longest keyword its type contains, utility if it contains
\* none.
C37_CategoryMapping ==
    PreviewReturned =>
        LET nodes == stageIn.workflow.nodes.items
        IN  /\ HistogramKeys \subseteq NodeCategories
            /\ SumOfCounts(stageOut.preview.value.nodeTypes) = Len(nodes)
            /\ HistogramKeys
                   \subseteq UNION {LongestMatchCategories(nodes[i].type) : i \in 1..Len(nodes)}

\* Every node is counted once under one of the eight categories, under
\* utility exactly if its type contains no keyword.
CategoryOncePerNode ==
    PreviewReturned =>
        LET nodes == stageIn.workflow.nodes.items
        IN  /\ HistogramKeys \subseteq NodeCategories
            /\ SumOfCounts(stageOut.preview.value.nodeTypes) = Len(nodes)
            /\ "utility" \in HistogramKeys
                   <=> \E i \in 1..Len(nodes) :
                           LongestMatchCategories(nodes[i].type) = {"utility"}

\* ---- answers to messages
\* The handling of the sender's message has come to its end.
HandlerEnded(s) == port[s].pc \in {"replied", "rejected"}

\* C38: for every message, of a known type or not, handleMessage calls
\* sendResponse exactly once: with success true when the handler succeeds,
\* with success false and an error when it throws.
C38_OneResponse ==
    \A s \in Callers :
        /\ Len(port[s].replies) <= 1
        /\ HandlerEnded(s) =>
               /\ Len(port[s].replies) = 1
               /\ port[s].threw =>
                      ~port[s].replies[1].success /\ port[s].replies[1].error # ""
               /\ (~port[s].threw /\ port[s].type # "NO_SUCH_TYPE")
                      => port[s].replies[1].success

\* A handler that does not throw answers exactly once, and no handler
\* answers twice.
AnswersUnlessThrown ==
    \A s \in Callers :
        /\ Len(port[s].replies) <= 1
        /\ port[s].pc = "replied" =>
               /\ Len(port[s].replies) = 1
               /\ port[s].replies[1].success <=> port[s].type # "NO_SUCH_TYPE"

\* ---- concurrent saves
\* The ids in the stored list.
Stored == {store[k] : k \in 1..Len(store)}
\* The position of the id in the sequence, 0 if it is not in it.
PositionIn(seq, id) ==
    IF \E k \in 1..Len(seq) : seq[k] = id
    THEN CHOOSE k \in 1..Len(seq) : seq[k] = id
    ELSE 0

\* C39: every message whose saveMessage call completed is in the stored
\* list, unless the list is full and the message is older than all that are
\* stored; the stored messages are in the order in which their saves
\* completed; and the list never holds more than 1000 entries.
C39_NoLostMessages ==
    /\ Len(store) <= 1000
    /\ \A k \in 1..Len(completed) :
           \/ completed[k] \in Stored
           \/ /\ Len(store) = 1000
              /\ \A j \in 1..k : completed[j] \notin Stored
    /\ \A i, j \in 1..Len(completed) :
           (i < j /\ completed[i] \in Stored /\ completed[j] \in Stored)
           => PositionIn(store, completed[i]) < PositionIn(store, completed[j])

\* The list never exceeds the limit, the message saved last is at its end,
\* and the stored messages are in the order in which their saves completed.
LastSaveStored ==
    /\ Len(store) <= MessageLimit
    /\ completed # <<>> => store[Len(store)] = completed[Len(completed)]
    /\ \A i, j \in 1..Len(completed) :
           (i < j /\ completed[i] \in Stored /\ completed[j] \in Stored)
           => PositionIn(store, completed[i]) < PositionIn(store, completed[j])

\* ---- API keys in export and import
\* The API keys the program finds stored.
StoredKeys(storage) == [k \in ApiKeyNames |-> Get(getConfig(storage), k)]
\* The stored state with other API keys.
WithKeys(storage, keys) ==
    Storage(TRUE, Spread(getConfig(storage), keys), storage.messages)

ExportedWithoutKeys ==
    /\ stageIn.stage = "export"
    /\ stageOut.done
    /\ stageIn.storage.hasConfig
    /\ stageIn.storage.config["openaiApiKey"] = "sk-2"
    /\ DOMAIN stageOut.data.config = {"preferredProvider", "theme"}


====
